---- MODULE Spec2Model ----
(***************************************************************************)
(* Model of the LINE message-count bot: the Supabase edge function         *)
(* line-webhook (supabase/functions/line-webhook/index.ts), the SQL        *)
(* functions and tables it calls, and the admin-import edge function.      *)
(*                                                                         *)
(* A webhook request is a process.  Every step of it is one await on the   *)
(* store (one SQL statement, atomic at the store) together with the local  *)
(* computation and the calls to the LINE API that follow it; concurrent    *)
(* requests interleave between such steps.  The events of a batch are      *)
(* inputs: each one is drawn when the for-of loop reaches it.              *)
(***************************************************************************)
EXTENDS Integers, Sequences, FiniteSets, Bags, TLC

\* ------------------------------------------------------------------ bounds

\* events in one webhook batch
MaxBatch == 2
\* advances of the clock during one behaviour
MaxTicks == 1

\* ------------------------------------------------------- program constants

\* get_user_name: INTERVAL '7 days'
UserTtlDays == 7
\* get_group_name: INTERVAL '14 days'
GroupTtlDays == 14
\* getCurrentYearMonth / parseStatsRequest: jstOffset = 9 * 60 * 60 * 1000
JstOffsetHours == 9

\* ------------------------------------------------------------------- data

Requests == {"r1", "r2"}
Groups == {"G1", "G2"}
Users == {"U1", "U2"}

\* The clock counts hours; hour 0 is 2024-12-31T00:00Z.  It starts at 14:00Z,
\* which is 23:00 of 2024-12-31 at UTC+9, and advances a week at a time.
TickHours == {24 * UserTtlDays}

\* A text is a sequence of tokens: "@", the bot's name in some letter case,
\* a blank, a digit, the directive keyword KW, or any other character "x".
KW == "yue-fahua"
Digits == <<"0", "1", "2", "3", "4", "5", "6", "7", "8", "9">>
BotNameDefault == "Bot"

TxtPlain == <<"x", "x">>
TxtStats == <<"@", "Bot", " ", "1", "2", KW>>
TxtStatsLower == <<"x", "@", "bot", "3", KW>>
TxtMention == <<"@", "Bot", " ", "x">>
TxtBadMonth == <<"@", "Bot", " ", "1", "3", KW>>
TxtStatsYear == <<"2", "0", "2", "3", " ", "@", "Bot", " ", "1", KW>>
NoText == <<>>

\* ------------------------------------------------------------- pure helpers

Null == <<>>

Min(S) == CHOOSE x \in S : \A y \in S : x <= y

\* The record rec with the fields of upd put in place of its own.
Merge(rec, upd) == [k \in DOMAIN upd \cap DOMAIN rec |-> upd[k]] @@ rec

\* String.prototype.toLowerCase on the letter cases of the bot's name
toLowerCase(tok) ==
  IF tok \in {"Bot", "BOT", "bot"} THEN "bot" ELSE tok

IsDigit(tok) == \E d \in 1..10 : Digits[d] = tok

DigitVal(tok) == (CHOOSE d \in 1..10 : Digits[d] = tok) - 1

\* parseInt(s, 10) of a string of one or two digits
parseInt(ds) ==
  IF Len(ds) = 1 THEN DigitVal(ds[1])
  ELSE 10 * DigitVal(ds[1]) + DigitVal(ds[2])

\* ---------------------------------------------------------------- calendar

\* Mutant: the instant is read as a UTC date without the shift.
JstDay_utc(t) == t \div 24

\* Date arithmetic of getCurrentYearMonth: the instant shifted by +9 hours,
\* then read as a UTC calendar date.  Day 0 is 2024-12-31.
JstDay(t) == (t + JstOffsetHours) \div 24

getUTCFullYear(day) == IF day = 0 THEN 2024 ELSE 2025

\* getUTCMonth() + 1
UTCMonth(day) ==
  IF day = 0 THEN 12
  ELSE IF day <= 31 THEN 1
  ELSE IF day <= 59 THEN 2
  ELSE 3

\* `${year}-${String(month).padStart(2, "0")}`
YearMonthStr(year, month) == <<year, "-", month \div 10, month % 10>>

getCurrentYearMonth(t) ==
  YearMonthStr(getUTCFullYear(JstDay(t)), UTCMonth(JstDay(t)))

\* ----------------------------------------------------------- command parser

RECURSIVE SkipSpaces(_, _)
SkipSpaces(text, i) ==
  IF i <= Len(text) /\ text[i] = " " THEN SkipSpaces(text, i + 1) ELSE i

\* The regular expression @<botName>\s*(\d{1,2})KW, flag i, tried at position
\* p: the digits captured, or <<>> when it does not match there.
MatchAt(text, botName, p) ==
  IF p + 1 <= Len(text) /\ text[p] = "@"
       /\ toLowerCase(text[p + 1]) = toLowerCase(botName)
  THEN LET q == SkipSpaces(text, p + 2) IN
         IF q + 2 <= Len(text) /\ IsDigit(text[q]) /\ IsDigit(text[q + 1])
              /\ text[q + 2] = KW
         THEN <<text[q], text[q + 1]>>
         ELSE IF q + 1 <= Len(text) /\ IsDigit(text[q]) /\ text[q + 1] = KW
         THEN <<text[q]>>
         ELSE <<>>
  ELSE <<>>

\* text.match(pattern): the leftmost match decides; Null when the month is
\* out of 1..12 or nothing matches.
parseStatsRequest(text, botName, t) ==
  LET ps == {p \in 1..Len(text) : MatchAt(text, botName, p) # <<>>} IN
    IF ps = {} THEN Null
    ELSE LET month == parseInt(MatchAt(text, botName, Min(ps))) IN
           IF month >= 1 /\ month <= 12
           THEN YearMonthStr(getUTCFullYear(JstDay(t)), month)
           ELSE Null

\* Mutant: the count branch does not exclude report commands.
isStatsRequest_never(text, botName, t) == FALSE

isStatsRequest(text, botName, t) == parseStatsRequest(text, botName, t) # Null

isBotMentioned(text, botName) ==
  \E p \in 1..Len(text) :
    /\ p + 1 <= Len(text)
    /\ text[p] = "@"
    /\ toLowerCase(text[p + 1]) = toLowerCase(botName)

\* parseInt(targetMonth.split("-")[1], 10)
monthDisplay(ym) == 10 * ym[3] + ym[4]

\* ------------------------------------------------------------------ store

\* A row of message_counts without its surrogate id.
Row(g, u, ym, c) == [group_id |-> g, user_id |-> u, year_month |-> ym, count |-> c]

SameKey(row, g, u, ym) ==
  row.group_id = g /\ row.user_id = u /\ row.year_month = ym

\* Mutant: every group is allowed.
is_group_allowed_all(ag, g) == TRUE

\* is_group_allowed: EXISTS (SELECT 1 FROM allowed_groups WHERE group_id = p)
is_group_allowed(ag, g) == g \in ag

\* Mutant: a plain INSERT, no ON CONFLICT clause and no unique constraint.
increment_message_count_insert(mc, g, u, ym) ==
  mc (+) SetToBag({Row(g, u, ym, 1)})

\* Mutant: the update leaves user_id out of its condition.
increment_message_count_group(mc, g, u, ym) ==
  IF \E row \in BagToSet(mc) : SameKey(row, g, u, ym)
  THEN BagOfAll(LAMBDA row : IF row.group_id = g /\ row.year_month = ym
                             THEN [row EXCEPT !.count = @ + 1]
                             ELSE row, mc)
  ELSE mc (+) SetToBag({Row(g, u, ym, 1)})

\* Mutant: ON CONFLICT DO NOTHING.
increment_message_count_do_nothing(mc, g, u, ym) ==
  IF \E row \in BagToSet(mc) : SameKey(row, g, u, ym)
  THEN mc
  ELSE mc (+) SetToBag({Row(g, u, ym, 1)})

\* increment_message_count: INSERT ... VALUES (.., 1)
\*   ON CONFLICT (group_id, user_id, year_month) DO UPDATE SET count = count + 1
increment_message_count(mc, g, u, ym) ==
  IF \E row \in BagToSet(mc) : SameKey(row, g, u, ym)
  THEN BagOfAll(LAMBDA row : IF SameKey(row, g, u, ym)
                             THEN [row EXCEPT !.count = @ + 1]
                             ELSE row, mc)
  ELSE mc (+) SetToBag({Row(g, u, ym, 1)})

\* The rows of a result in the orders ORDER BY count DESC allows (one entry
\* per copy).  When no two rows have the same count there is one order: a
\* row comes after as many rows as have a higher count.  Otherwise a row of
\* the highest count comes first, then the others likewise.
RECURSIVE OrderedByCount(_)
OrderedByCount(b) ==
  LET rows == BagToSet(b)
      above == [row \in rows |-> Cardinality({x \in rows : x.count > row.count})]
  IN IF rows = {} THEN {<<>>}
     ELSE IF \A row \in rows : b[row] = 1 /\ above[row] = Cardinality(rows) - 1
                                  - Cardinality({x \in rows : x.count < row.count})
     THEN {[i \in 1..Cardinality(rows) |->
              CHOOSE row \in rows : above[row] = i - 1]}
     ELSE LET top == {row \in rows : above[row] = 0}
          IN UNION {{<<row>> \o s : s \in OrderedByCount(b (-) SetToBag({row}))} :
                    row \in top}

\* from("message_counts").select("user_id, count").eq(group_id).eq(year_month)
\*   .order("count", {ascending: false}): every order the store may return;
\* rows of equal count come in any order.
SelectStats(mc, g, ym) ==
  OrderedByCount([row \in {x \in BagToSet(mc) :
                              x.group_id = g /\ x.year_month = ym} |-> mc[row]])

\* A row of user_names or group_names.
NameRow(id, name, t) == [id |-> id, name |-> name, updated_at |-> t]

\* Mutant: the age of the row is not looked at.
GetName_no_ttl(tbl, id, t, ttlDays) ==
  LET hit == {row \in tbl : row.id = id} IN
    IF hit # {} THEN (CHOOSE row \in hit : TRUE).name ELSE Null

\* get_user_name / get_group_name: the cached name when a row exists and
\* updated_at > NOW() - INTERVAL 'ttl days', else NULL.
GetName(tbl, id, t, ttlDays) ==
  LET hit == {row \in tbl : row.id = id} IN
    IF hit # {} /\ (CHOOSE row \in hit : TRUE).updated_at > t - 24 * ttlDays
    THEN (CHOOSE row \in hit : TRUE).name
    ELSE Null

get_user_name(un, u, t) == GetName(un, u, t, UserTtlDays)

get_group_name(gn, g, t) == GetName(gn, g, t, GroupTtlDays)

\* Mutant: a plain INSERT into a table without primary key.
UpsertName_insert(tbl, id, name, t) == tbl \cup {NameRow(id, name, t)}

\* upsert_user_name / upsert_group_name: INSERT ... ON CONFLICT (id)
\*   DO UPDATE SET name = EXCLUDED.name, updated_at = NOW()
UpsertName(tbl, id, name, t) ==
  {row \in tbl : row.id # id} \cup {NameRow(id, name, t)}

\* Mutant: the name is not stored.
upsert_user_name_skip(un, u, name, t) == un

upsert_user_name(un, u, name, t) == UpsertName(un, u, name, t)

upsert_group_name(gn, g, name, t) == UpsertName(gn, g, name, t)

\* ---------------------------------------------------------------- LINE API

\* getUserProfile: profile.displayName on a 2xx answer, else the first 8
\* characters of the id followed by "...".
getUserProfile(u, apiOk) ==
  IF apiOk THEN <<"displayName", u>> ELSE <<"substring", u, 8>>

\* getGroupSummary: summary.groupName on a 2xx answer, else the first 10
\* characters of the id followed by "...".
getGroupSummary(g, apiOk) ==
  IF apiOk THEN <<"groupName", g>> ELSE <<"substring", g, 10>>

\* verifySignature: base64(HMAC-SHA256(channelSecret, body)) === signature.
\* The keyed hash is a free constructor: equal only for equal key and body.
Hmac(secret, body) == <<"hmac-sha256", secret, body>>

\* Mutant: the computed signature is not compared.
verifySignature_any(body, signature, channelSecret) == TRUE

verifySignature(body, signature, channelSecret) ==
  signature = Hmac(channelSecret, body)

\* ------------------------------------------------------------------ inputs

\* A webhook event.  An absent string field is "" and an absent text <<>>,
\* both falsy in the handler's tests; source.present is FALSE for an event
\* that carries no source object.
Event(type, present, srcType, g, u, mtype, text, replyToken) ==
  [type |-> type,
   source |-> [present |-> present, type |-> srcType, groupId |-> g, userId |-> u],
   message |-> [type |-> mtype, text |-> text],
   replyToken |-> replyToken]

NoEvent == Event("", FALSE, "", "", "", "", NoText, FALSE)

EventKinds ==
  { Event("message", TRUE, "group", "G1", "U1", "text", TxtPlain, TRUE),
    Event("message", TRUE, "group", "G1", "U2", "text", TxtPlain, FALSE),
    Event("message", TRUE, "group", "G1", "U1", "text", TxtStats, TRUE),
    Event("message", TRUE, "group", "G1", "U1", "text", TxtStatsLower, FALSE),
    Event("message", TRUE, "group", "G1", "U1", "text", TxtMention, TRUE),
    Event("message", TRUE, "group", "G1", "U1", "text", TxtBadMonth, TRUE),
    Event("message", TRUE, "group", "G1", "U1", "sticker", NoText, TRUE),
    Event("message", TRUE, "group", "G2", "U1", "text", TxtPlain, TRUE),
    Event("message", TRUE, "group", "G1", "", "text", TxtPlain, TRUE),
    Event("message", TRUE, "user", "", "U1", "text", TxtPlain, TRUE),
    Event("follow", TRUE, "group", "G1", "U1", "", NoText, TRUE),
    Event("message", FALSE, "", "", "", "text", TxtPlain, TRUE) }

\* A raw request body, by what JSON.parse makes of it: a syntax error, a
\* value without an events array, or a batch of n events.
Body(json, n) == [json |-> json, n |-> n]

Bodies ==
  {Body("invalid", 0), Body("noEvents", 0)} \cup
  {Body("batch", n) : n \in 0..MaxBatch}

\* The channel secret of the LINE channel that signs the deliveries.
ChannelSecret == "secret"

\* What a request may carry in X-Line-Signature: nothing, the platform's
\* signature of this body, its signature of another body (the body was
\* changed after signing), or a signature made with another key.
Signatures(body) ==
  {<<>>, Hmac(ChannelSecret, body), Hmac("other", body),
   Hmac(ChannelSecret, Body("batch", (body.n + 1) % (MaxBatch + 1)))}

Methods == {"POST", "GET", "OPTIONS"}

\* Deployments: the environment of the edge function and the allow-list.
\* SUPABASE_URL and SUPABASE_SERVICE_ROLE_KEY are set by the platform.
Env(secret, token) ==
  [LINE_CHANNEL_SECRET |-> secret, LINE_CHANNEL_ACCESS_TOKEN |-> token,
   LINE_BOT_NAME |-> BotNameDefault]

Deployments ==
  { [env |-> Env(ChannelSecret, TRUE), allowed |-> {"G1"}],
    [env |-> Env(ChannelSecret, FALSE), allowed |-> {"G1"}],
    [env |-> Env(ChannelSecret, TRUE), allowed |-> {}],
    [env |-> Env("", TRUE), allowed |-> {"G1"}] }

\* ------------------------------------------------- Apps Script: the data

\* LineMonthlyCounter.gs, the handler of the same webhook as a Google Apps
\* Script web app that keeps the counts in a spreadsheet.

\* TIMEZONE = 'Asia/Taipei'
TaipeiOffsetHours == 8
\* Script property ALLOWED_GROUP_IDS of the deployment
ALLOWED_GROUP_IDS == {"G1"}
\* Script property BOT_DISPLAY_NAME of the deployment
BOT_DISPLAY_NAME == "Bot"
\* payload.destination: the user id of the bot
BotUserId == "Ubot"

Executions == {"x1", "x2"}
NoOne == ""

\* The tokens of the characters "月" and "發話"
YUE == "yue"
FAHUA == "fahua"

GasPlain == <<"x", "x">>
GasCmd == <<"@", "Bot", " ", "1", "2", YUE, FAHUA>>
GasCmdSpaced == <<"1", " ", YUE, " ", FAHUA>>
GasBadMonth == <<"@", "Bot", "1", "3", YUE, FAHUA>>

\* A LINE event as doPost reads it: message.mention.mentionees holds the
\* user ids mentioned, timestamp is the event's time in hours.
GasEvent(type, present, srcType, g, u, mtype, text, mentionees, replyToken, timestamp) ==
  [type |-> type,
   source |-> [present |-> present, type |-> srcType, groupId |-> g, userId |-> u],
   message |-> [type |-> mtype, text |-> text, mentionees |-> mentionees],
   replyToken |-> replyToken, timestamp |-> timestamp]

NoGasEvent == GasEvent("", FALSE, "", "", "", "", NoText, {}, FALSE, 0)

\* The names LINE reports: of a group (GET /v2/bot/group/{id}/summary) and
\* of a member (GET /v2/bot/group/{id}/member/{userId}), as character
\* sequences.
LineGroupName(g) == IF g = "G1" THEN <<"T", ":", "A">> ELSE <<"T", "/", "A">>
LineDisplayName(u) == <<"N", u>>

\* Utilities.formatDate(new Date(timestamp), TIMEZONE, 'yyyy-MM')
TaipeiDay(t) == (t + TaipeiOffsetHours) \div 24

formatMonthKey(t) ==
  YearMonthStr(getUTCFullYear(TaipeiDay(t)), UTCMonth(TaipeiDay(t)))

\* The regular expression (\d{1,2})\s*月\s*發話 tried at position p: the
\* digits captured, or <<>> when it does not match there.
MonthMatchAt(text, p) ==
  LET tail(q) == LET a == SkipSpaces(text, q) IN
                   /\ a <= Len(text) /\ text[a] = YUE
                   /\ LET b == SkipSpaces(text, a + 1) IN
                        b <= Len(text) /\ text[b] = FAHUA
  IN IF p <= Len(text) /\ IsDigit(text[p])
     THEN IF p + 1 <= Len(text) /\ IsDigit(text[p + 1]) /\ tail(p + 2)
          THEN <<text[p], text[p + 1]>>
          ELSE IF tail(p + 1) THEN <<text[p]>> ELSE <<>>
     ELSE <<>>

\* extractMonthCommand_: the leftmost match decides; Null when nothing
\* matches or the month is out of 1..12.  The year is that of the event's
\* timestamp (the script runs in the time zone TIMEZONE).
extractMonthCommand_(text, timestampMs) ==
  LET ps == {p \in 1..Len(text) : MonthMatchAt(text, p) # <<>>} IN
    IF ps = {} THEN Null
    ELSE LET monthNumber == parseInt(MonthMatchAt(text, Min(ps))) IN
           IF monthNumber >= 1 /\ monthNumber <= 12
           THEN [monthKey |-> YearMonthStr(getUTCFullYear(TaipeiDay(timestampMs)),
                                           monthNumber),
                 monthLabel |-> monthNumber]
           ELSE Null

\* isBotMentioned_: a mentionee with the bot's user id, or the text holds
\* '@' + botDisplayName.
isBotMentioned_(message, botUserId, botDisplayName) ==
  /\ message.type = "text"
  /\ \/ botUserId # "" /\ botUserId \in message.mentionees
     \/ /\ botDisplayName # ""
        /\ \E p \in 1..Len(message.text) :
             /\ p + 1 <= Len(message.text)
             /\ message.text[p] = "@"
             /\ message.text[p + 1] = botDisplayName

\* sanitizeSheetName_: the characters [ ] * / \ ? : become "-", an empty
\* name becomes "Group", and at most 80 characters are kept.
SheetUnsafe == {"[", "]", "*", "/", "\\", "?", ":"}

sanitizeSheetName_(rawName) ==
  LET name == [i \in 1..Len(rawName) |->
                 IF rawName[i] \in SheetUnsafe THEN "-" ELSE rawName[i]]
  IN IF name = <<>> THEN <<"Group">>
     ELSE IF Len(name) > 80 THEN SubSeq(name, 1, 80)
     ELSE name

\* formatMonthSuffix_: yy-MM of a yyyy-MM month key
formatMonthSuffix_(monthKey) ==
  <<monthKey[1] % 100, "-", monthKey[3], monthKey[4]>>

\* getGroupMonthSheetName_
getGroupMonthSheetName_(groupId, groupName, monthKey) ==
  << sanitizeSheetName_(IF groupName # <<>> THEN groupName ELSE <<groupId>>),
     "-", formatMonthSuffix_(monthKey) >>

\* A data row of a per-group monthly sheet: User ID, Display Name, Count.
SheetRow(userId, displayName, count) ==
  [userId |-> userId, displayName |-> displayName, count |-> count]

\* The locals of one execution of doPost, with what it did so far: pending
\* (the changes to the spreadsheet it made that are not applied yet), incs
\* (the events for which incrementGroupMonthlyCount_ completed, each with
\* its group, user and month) and replies (the reports it sent).
IdleExe ==
  [pc |-> "idle", status |-> 0, len |-> 0, idx |-> 0, ev |-> NoGasEvent,
   monthKey |-> Null, groupName |-> <<>>, displayName |-> <<>>,
   monthCommand |-> Null, sheetName |-> Null, rowIndex |-> 0,
   lastRow |-> 0, currentCount |-> 0, currentDisplayName |-> <<>>,
   thrown |-> FALSE, pending |-> <<>>, incs |-> {}, replies |-> <<>>]

\* ------------------------------------------------------------------- state

VARIABLES
  message_counts,   \* table message_counts: a bag of rows
  user_names,       \* table user_names: a set of rows
  group_names,      \* table group_names: a set of rows
  allowed_groups,   \* table allowed_groups: the group ids
  env,              \* Deno.env of the deployment
  now,              \* the clock, in hours
  ticks,            \* advances of the clock so far
  scope,            \* the scenario: the requests that arrive, their events
  req,              \* the webhook requests: locals and position of each
  adm,              \* the admin-import request: its locals and position
  sheets,           \* the spreadsheet: the data rows of each sheet, by name
  cache,            \* CacheService.getScriptCache(): pairs of key and value
  lock,             \* LockService.getScriptLock(): the execution holding it
  exe               \* the executions of doPost: locals and position of each

vars == <<message_counts, user_names, group_names, allowed_groups, env, now,
          ticks, scope, req, adm, sheets, cache, lock, exe>>

store == <<message_counts, user_names, group_names, allowed_groups>>

script == <<sheets, cache, lock, exe>>

\* No sheet has a data row.
NoSheets == [name \in {} |-> <<>>]

\* The web app of the Apps Script is not called.
ScriptIdle ==
  /\ sheets = NoSheets
  /\ cache = {}
  /\ lock = NoOne
  /\ exe = [x \in Executions |-> IdleExe]

\* The locals of the Deno.serve handler of line-webhook, with what the
\* request did so far: calls (kinds of store and API calls of the request),
\* evCalls and evReplies (those made for the current event), incLog (the keys
\* logged as "Incremented count for user ..."), eligible (the (group, user)
\* of the events drawn so far that qualify for counting), storeFailed (a
\* store call of the request returned an error), res (the calls of
\* getUserNameCached and getGroupNameCached the request made, in order),
\* failed (the store calls that returned an error, each with the number of
\* the event it was made for).
IdleReq ==
  [pc |-> "idle", method |-> "", sig |-> <<>>, body |-> Body("", 0),
   status |-> 0, yearMonth |-> Null, processedCount |-> 0,
   idx |-> 0, len |-> 0, ev |-> NoEvent, targetMonth |-> Null,
   branch |-> "", stats |-> <<>>, i |-> 0, statsLines |-> <<>>,
   calls |-> {}, evCalls |-> {}, evReplies |-> <<>>,
   incLog |-> EmptyBag, eligible |-> EmptyBag, storeFailed |-> FALSE,
   res |-> <<>>, failed |-> <<>>]

InitStore ==
  SetToBag({Row("G1", "U2", YearMonthStr(2024, 12), 1),
            Row("G2", "U1", YearMonthStr(2024, 12), 4)})

\* A scenario: which requests arrive, which events their batches hold, and
\* the outcomes of a call to the store (oks) and of a request to the LINE
\* API (apis; TRUE: it succeeds), whether the calls of the name resolvers
\* and the failed store calls are logged, and whether an admin import arrives.
Scope(requests, kinds, oks, apis, log, admin) ==
  [requests |-> requests, kinds |-> kinds, oks |-> oks, apis |-> apis,
   log |-> log, admin |-> admin]

\* The locals of the Deno.serve handler of admin-import: the request's
\* group_id, year_month and mode, n (the lines of data that parse as
\* "Name: count"), k (the entries handled so far), the current entry, and
\* results (the array of the response, kept when the scenario logs).
IdleAdm ==
  [pc |-> "idle", status |-> 0, mode |-> "", group_id |-> "",
   year_month |-> Null, n |-> 0, k |-> 0,
   entry |-> [name |-> <<>>, count |-> 0], userId |-> "",
   results |-> <<>>]

Setup(sc, deployments) ==
  /\ scope = sc
  /\ adm = IdleAdm
  /\ \E d \in deployments : env = d.env /\ allowed_groups = d.allowed
  /\ message_counts = InitStore
  /\ user_names = {}
  /\ group_names = {}
  /\ now = 14
  /\ ticks = 0
  /\ req = [r \in Requests |-> IdleReq]
  /\ ScriptIdle

\* One request, every input.
Init == Setup(Scope({"r1"}, EventKinds, BOOLEAN, BOOLEAN, FALSE, FALSE), Deployments)

\* Two requests in flight together, with batches of countable messages and
\* report commands, in the fully configured deployment; no call fails.
ConcurrentKinds ==
  { Event("message", TRUE, "group", "G1", "U1", "text", TxtPlain, TRUE),
    Event("message", TRUE, "group", "G1", "U2", "text", TxtPlain, FALSE),
    Event("message", TRUE, "group", "G1", "U1", "text", TxtStats, TRUE) }

InitConcurrent ==
  Setup(Scope(Requests, ConcurrentKinds, {TRUE}, {TRUE}, FALSE, FALSE),
        {[env |-> Env(ChannelSecret, TRUE), allowed |-> {"G1"}]})

\* ------------------------------------------------- line-webhook: the handler

Done(rq, status) ==
  Merge(rq, [pc |-> "done", status |-> status, ev |-> NoEvent,
             evCalls |-> {}, evReplies |-> <<>>, targetMonth |-> Null,
             branch |-> "", stats |-> <<>>, i |-> 0, statsLines |-> <<>>])

Called(rq, kinds) ==
  [calls |-> rq.calls \cup kinds, evCalls |-> rq.evCalls \cup kinds]

\* The store client returned {data, error} for a call: what the request
\* keeps of an error.
StoreAnswer(rq, kind, ok) ==
  [storeFailed |-> rq.storeFailed \/ ~ok,
   failed |-> IF scope.log /\ ~ok THEN Append(rq.failed, <<rq.idx, kind>>)
              ELSE rq.failed]

\* Mutant: the test of lines 347-352 is left out.
Accept_no_method_check(rq) ==
  IF rq.method = "OPTIONS" THEN Done(rq, 204)
  ELSE IF env.LINE_CHANNEL_SECRET = "" THEN Done(rq, 500)
  ELSE IF rq.sig = <<>> THEN Done(rq, 401)
  ELSE IF ~verifySignature(rq.body, rq.sig, env.LINE_CHANNEL_SECRET)
  THEN Done(rq, 401)
  ELSE Merge(rq, [pc |-> "loop", calls |-> {"JSON.parse"},
                  yearMonth |-> getCurrentYearMonth(now), len |-> rq.body.n])

\* From the method check to the start of the for-of loop: no await of these
\* lines touches the store.  An exception (JSON.parse, iterating a missing
\* events array) is caught by the handler's catch and answered 500.
Accept(rq) ==
  IF rq.method = "OPTIONS" THEN Done(rq, 204)
  ELSE IF rq.method # "POST" THEN Done(rq, 405)
  ELSE IF env.LINE_CHANNEL_SECRET = "" THEN Done(rq, 500)
  ELSE IF rq.sig = <<>> THEN Done(rq, 401)
  ELSE IF ~verifySignature(rq.body, rq.sig, env.LINE_CHANNEL_SECRET)
  THEN Done(rq, 401)
  ELSE IF rq.body.json = "invalid"
  THEN Done(Merge(rq, [calls |-> {"JSON.parse"}]), 500)
  ELSE IF rq.body.json = "noEvents"
  THEN Done(Merge(rq, [calls |-> {"JSON.parse"},
                       yearMonth |-> getCurrentYearMonth(now)]), 500)
  ELSE Merge(rq, [pc |-> "loop", calls |-> {"JSON.parse"},
                  yearMonth |-> getCurrentYearMonth(now), len |-> rq.body.n])

Receive(r) ==
  /\ req[r].pc = "idle"
  /\ r \in scope.requests
  /\ \E m \in Methods, b \in Bodies :
       \E sg \in Signatures(b) :
         /\ m # "POST" => (b = Body("batch", 0) /\ sg = <<>>)
         /\ req' = [req EXCEPT ![r] =
                      Accept(Merge(IdleReq, [method |-> m, body |-> b, sig |-> sg]))]
  /\ UNCHANGED <<store, env, now, ticks, scope, adm, script>>

\* The event qualifies for counting: a text message from a group source with
\* both ids, of an allow-listed group, that is no report command.
Qualifies(ev) ==
  /\ ev.type = "message"
  /\ ev.source.present /\ ev.source.type = "group"
  /\ ev.source.groupId # "" /\ ev.source.userId # ""
  /\ ev.message.type = "text"
  /\ ev.source.groupId \in allowed_groups
  /\ parseStatsRequest(ev.message.text, env.LINE_BOT_NAME, now) = Null

\* The loop takes the next event of the batch and tests lines 404-409.
\* Reading event.source.type of an event without source throws.
NextEvent(r) ==
  /\ req[r].pc = "loop"
  /\ req[r].idx < req[r].len
  /\ \E ev \in scope.kinds :
       LET rq == Merge(req[r],
                   [idx |-> req[r].idx + 1, ev |-> ev, evCalls |-> {},
                    evReplies |-> <<>>, targetMonth |-> Null, branch |-> "",
                    eligible |-> IF Qualifies(ev)
                                 THEN req[r].eligible (+)
                                      SetToBag({<<ev.source.groupId, ev.source.userId>>})
                                 ELSE req[r].eligible])
       IN req' = [req EXCEPT ![r] =
                    IF ~ev.source.present THEN Done(rq, 500)
                    ELSE IF /\ ev.type = "message"
                            /\ ev.source.type = "group"
                            /\ ev.source.groupId # ""
                            /\ ev.source.userId # ""
                    THEN Merge(rq, [pc |-> "gate"])
                    ELSE rq]
  /\ UNCHANGED <<store, env, now, ticks, scope, adm, script>>

\* The reply texts, by their parts.
ReplyText(kind, month, lines, total, active) ==
  [kind |-> kind, month |-> month, lines |-> lines, total |-> total,
   active |-> active]

\* Mutant: the reply of the unknown-mention branch is not sent.
Replied_not_mention(rq, text) ==
  IF text.kind = "mention" THEN rq
  ELSE Merge(rq, Called(rq, {"reply"}) @@
                 [evReplies |-> Append(rq.evReplies, text)])

\* replyMessage: one POST to the reply endpoint; a failure is only logged.
Replied(rq, text) ==
  Merge(rq, Called(rq, {"reply"}) @@
            [evReplies |-> Append(rq.evReplies, text)])

\* Mutant: the count branch does not test the message type.
CountOrSkip_any_type(rq) ==
  IF ~isStatsRequest(rq.ev.message.text, env.LINE_BOT_NAME, now)
  THEN Merge(rq, [pc |-> "groupName", branch |-> "count"])
  ELSE Merge(rq, [pc |-> "loop"])

\* Lines 517-519: the count branch is entered for a text message that is no
\* stats request.
CountOrSkip(rq) ==
  IF /\ rq.ev.message.type = "text"
     /\ ~isStatsRequest(rq.ev.message.text, env.LINE_BOT_NAME, now)
  THEN Merge(rq, [pc |-> "groupName", branch |-> "count"])
  ELSE Merge(rq, [pc |-> "loop"])

\* Mutant: the unknown-mention branch does not ask for a replyToken and an
\* access token.
Classify_mention_unguarded(rq) ==
  LET text == rq.ev.message.text
      targetMonth == parseStatsRequest(text, env.LINE_BOT_NAME, now)
  IN IF /\ rq.ev.message.type = "text"
        /\ targetMonth # Null
        /\ rq.ev.replyToken
        /\ env.LINE_CHANNEL_ACCESS_TOKEN
     THEN Merge(rq, [pc |-> "stats", branch |-> "stats",
                     targetMonth |-> targetMonth])
     ELSE IF /\ rq.ev.message.type = "text"
             /\ isBotMentioned(text, env.LINE_BOT_NAME)
     THEN CountOrSkip(Replied(rq, ReplyText("mention", 0, <<>>, 0, 0)))
     ELSE CountOrSkip(rq)

\* Mutant: the unknown-mention branch is an "if" of its own, not the "else"
\* of the stats branch.
Classify_no_else(rq) ==
  LET text == rq.ev.message.text
      targetMonth == parseStatsRequest(text, env.LINE_BOT_NAME, now)
      mentioned == /\ rq.ev.message.type = "text"
                   /\ isBotMentioned(text, env.LINE_BOT_NAME)
                   /\ rq.ev.replyToken
                   /\ env.LINE_CHANNEL_ACCESS_TOKEN
      rp == IF mentioned THEN Replied(rq, ReplyText("mention", 0, <<>>, 0, 0))
            ELSE rq
  IN IF /\ rq.ev.message.type = "text"
        /\ targetMonth # Null
        /\ rq.ev.replyToken
        /\ env.LINE_CHANNEL_ACCESS_TOKEN
     THEN Merge(rp, [pc |-> "stats", branch |-> "stats",
                     targetMonth |-> targetMonth])
     ELSE CountOrSkip(rp)

\* Lines 423-515 after the gate: the stats branch, the unknown-mention
\* branch (its reply is an AI answer or a canned one), or neither.
Classify(rq) ==
  LET text == rq.ev.message.text
      targetMonth == parseStatsRequest(text, env.LINE_BOT_NAME, now)
  IN IF /\ rq.ev.message.type = "text"
        /\ targetMonth # Null
        /\ rq.ev.replyToken
        /\ env.LINE_CHANNEL_ACCESS_TOKEN
     THEN Merge(rq, [pc |-> "stats", branch |-> "stats",
                     targetMonth |-> targetMonth])
     ELSE IF /\ rq.ev.message.type = "text"
             /\ isBotMentioned(text, env.LINE_BOT_NAME)
             /\ rq.ev.replyToken
             /\ env.LINE_CHANNEL_ACCESS_TOKEN
     THEN CountOrSkip(Replied(rq, ReplyText("mention", 0, <<>>, 0, 0)))
     ELSE CountOrSkip(rq)

\* Mutant: a lookup that returned an error lets the event through.
Gate_fail_open(r) ==
  /\ req[r].pc = "gate"
  /\ \E ok \in scope.oks :
       \E rq \in {Merge(req[r], Called(req[r], {"is_group_allowed"}) @@
                                StoreAnswer(req[r], "is_group_allowed", ok))} :
         LET isAllowed == ~ok \/ is_group_allowed(allowed_groups, rq.ev.source.groupId)
         IN req' = [req EXCEPT ![r] =
                      IF ~isAllowed THEN Merge(rq, [pc |-> "loop"])
                      ELSE Classify(rq)]
  /\ UNCHANGED <<store, env, now, ticks, scope, adm, script>>

\* rpc("is_group_allowed"): the store answers, or returns an error and no data.
Gate(r) ==
  /\ req[r].pc = "gate"
  /\ \E ok \in scope.oks :
       \E rq \in {Merge(req[r], Called(req[r], {"is_group_allowed"}) @@
                                StoreAnswer(req[r], "is_group_allowed", ok))} :
         LET isAllowed == ok /\ is_group_allowed(allowed_groups, rq.ev.source.groupId)
         IN req' = [req EXCEPT ![r] =
                      IF ~isAllowed THEN Merge(rq, [pc |-> "loop"])
                      ELSE Classify(rq)]
  /\ UNCHANGED <<store, env, now, ticks, scope, adm, script>>

\* Mutant: the test of line 446 is left out.
NoStats_never(s) == FALSE

\* Line 446: !stats || stats.length === 0
NoStats(s) == Len(s) = 0

\* Lines 455-480 begin: the loop over the rows; with no row to name the
\* reply follows at once.
StartReport(rq, s) ==
  IF Len(s) = 0
  THEN Merge(Replied(rq, ReplyText("report", monthDisplay(rq.targetMonth),
                                   <<>>, 0, 0)),
             [pc |-> "loop", stats |-> s, i |-> 0, statsLines |-> <<>>])
  ELSE Merge(rq, [pc |-> "userName", stats |-> s, i |-> 0,
                  statsLines |-> <<>>])

\* Mutant: the select sees the table as it was when the request began.
Stats_at_start(r) ==
  /\ req[r].pc = "stats"
  /\ LET rq == Merge(req[r], Called(req[r], {"select"})) IN
       \E ok \in scope.oks :
         \E s \in SelectStats(InitStore, rq.ev.source.groupId,
                              rq.targetMonth) :
            req' = [req EXCEPT ![r] =
                      IF ~ok
                      THEN Merge(rq, [pc |-> "loop"] @@
                                     StoreAnswer(rq, "select", ok))
                      ELSE IF NoStats(s)
                      THEN Merge(Replied(rq, ReplyText("nodata",
                                   monthDisplay(rq.targetMonth), <<>>, 0, 0)),
                                 [pc |-> "loop"])
                      ELSE StartReport(rq, s)]
  /\ UNCHANGED <<store, env, now, ticks, scope, adm, script>>

\* The select of the stats branch (lines 433-453).
Stats(r) ==
  /\ req[r].pc = "stats"
  /\ LET rq == Merge(req[r], Called(req[r], {"select"})) IN
       \E ok \in scope.oks :
         \E s \in SelectStats(message_counts, rq.ev.source.groupId,
                              rq.targetMonth) :
            req' = [req EXCEPT ![r] =
                      IF ~ok
                      THEN Merge(rq, [pc |-> "loop"] @@
                                     StoreAnswer(rq, "select", ok))
                      ELSE IF NoStats(s)
                      THEN Merge(Replied(rq, ReplyText("nodata",
                                   monthDisplay(rq.targetMonth), <<>>, 0, 0)),
                                 [pc |-> "loop"])
                      ELSE StartReport(rq, s)]
  /\ UNCHANGED <<store, env, now, ticks, scope, adm, script>>

\* Mutant: the total is the count of the first row.
SumCounts_first(s) == IF s = <<>> THEN 0 ELSE s[1].count

\* totalMessages += stat.count, over the rows lo..hi
RECURSIVE SumRange(_, _, _)
SumRange(s, lo, hi) ==
  IF lo > hi THEN 0
  ELSE IF lo = hi THEN s[lo].count
  ELSE SumRange(s, lo, (lo + hi) \div 2) + SumRange(s, (lo + hi) \div 2 + 1, hi)

SumCounts(s) == SumRange(s, 1, Len(s))

\* A call of getUserNameCached or getGroupNameCached begins: what the log
\* keeps of it.  rows is what the table holds for the id when the cache is
\* read, data the answer of the rpc; raced says that another request was
\* between its own cache miss and its cache write for the same id.
Resolving(rq, kind, id, rows, data, raced) ==
  [res |-> IF ~scope.log THEN rq.res
           ELSE Append(rq.res,
                  [kind |-> kind, id |-> id, at |-> now, rows |-> rows,
                   fetched |-> data = Null, apiOk |-> FALSE, wrote |-> FALSE,
                   name |-> data, raced |-> raced])]

\* The call ends after its external fetch.
Resolved(rq, apiOk, wrote, name) ==
  [res |-> IF ~scope.log THEN rq.res
           ELSE [rq.res EXCEPT ![Len(rq.res)] =
                   [@ EXCEPT !.apiOk = apiOk, !.wrote = wrote, !.name = name]]]

\* Whose name getUserNameCached resolves: the row's user in the stats
\* branch, the sender in the count branch.
NameUser(rq) ==
  IF rq.branch = "stats" THEN rq.stats[rq.i + 1].user_id
  ELSE rq.ev.source.userId

\* Mutant: a message whose sender could not be named is not counted.
GotUserName_named_only(rq, displayName) ==
  IF rq.branch = "stats"
  THEN LET lines == Append(rq.statsLines,
                      [name |-> displayName, count |-> rq.stats[rq.i + 1].count])
       IN IF rq.i + 1 < Len(rq.stats)
          THEN Merge(rq, [pc |-> "userName", i |-> rq.i + 1, statsLines |-> lines])
          ELSE Merge(Replied(rq, ReplyText("report", monthDisplay(rq.targetMonth),
                                 lines, SumCounts(rq.stats), Len(rq.stats))),
                     [pc |-> "loop", i |-> rq.i + 1, statsLines |-> lines])
  ELSE IF displayName[1] = "substring" THEN Merge(rq, [pc |-> "loop"])
  ELSE Merge(rq, [pc |-> "increment"])

\* What follows getUserNameCached: the next line of the report, and after
\* the last one the reply (lines 468-483); the increment in the count branch.
GotUserName(rq, displayName) ==
  IF rq.branch = "stats"
  THEN LET lines == Append(rq.statsLines,
                      [name |-> displayName, count |-> rq.stats[rq.i + 1].count])
       IN IF rq.i + 1 < Len(rq.stats)
          THEN Merge(rq, [pc |-> "userName", i |-> rq.i + 1, statsLines |-> lines])
          ELSE Merge(Replied(rq, ReplyText("report", monthDisplay(rq.targetMonth),
                                 lines, SumCounts(rq.stats), Len(rq.stats))),
                     [pc |-> "loop", i |-> rq.i + 1, statsLines |-> lines])
  ELSE Merge(rq, [pc |-> "increment"])

\* getUserNameCached, first half: rpc("get_user_name").
GetUserName(r) ==
  /\ req[r].pc = "userName"
  /\ \E ok \in scope.oks :
       LET u == NameUser(req[r])
           data == IF ok THEN get_user_name(user_names, u, now) ELSE Null
           raced == \E o \in Requests \ {r} :
                      req[o].pc = "fetchUser" /\ NameUser(req[o]) = u
           rq == Merge(req[r],
                   Called(req[r], {"get_user_name"}) @@
                   StoreAnswer(req[r], "get_user_name", ok) @@
                   Resolving(req[r], "user", u,
                             {row \in user_names : row.id = u}, data, raced))
       IN req' = [req EXCEPT ![r] =
                    IF data # Null THEN GotUserName(rq, data)
                    ELSE Merge(rq, [pc |-> "fetchUser"])]
  /\ UNCHANGED <<store, env, now, ticks, scope, adm, script>>

\* getUserNameCached, second half: getUserProfile, then cacheUserName.  The
\* API call fails without an access token.
FetchUserName(r) ==
  /\ req[r].pc = "fetchUser"
  /\ \E apiOk \in {o /\ env.LINE_CHANNEL_ACCESS_TOKEN : o \in scope.apis},
        ok \in scope.oks :
       LET userName == getUserProfile(NameUser(req[r]), apiOk)
           rq == Merge(req[r],
                   Called(req[r], {"profile", "upsert_user_name"}) @@
                   StoreAnswer(req[r], "upsert_user_name", ok) @@
                   Resolved(req[r], apiOk, ok, userName))
       IN /\ user_names' = IF ok
                           THEN upsert_user_name(user_names, NameUser(rq), userName, now)
                           ELSE user_names
          /\ req' = [req EXCEPT ![r] = GotUserName(rq, userName)]
  /\ UNCHANGED <<message_counts, group_names, allowed_groups, env, now, ticks, scope, adm, script>>

\* getGroupNameCached, first half: rpc("get_group_name").
GetGroupName(r) ==
  /\ req[r].pc = "groupName"
  /\ \E ok \in scope.oks :
       LET g == req[r].ev.source.groupId
           data == IF ok THEN get_group_name(group_names, g, now) ELSE Null
           raced == \E o \in Requests \ {r} :
                      req[o].pc = "fetchGroup" /\ req[o].ev.source.groupId = g
           rq == Merge(req[r],
                   Called(req[r], {"get_group_name"}) @@
                   StoreAnswer(req[r], "get_group_name", ok) @@
                   Resolving(req[r], "group", g,
                             {row \in group_names : row.id = g}, data, raced))
       IN req' = [req EXCEPT ![r] =
                    IF data # Null THEN Merge(rq, [pc |-> "userName"])
                    ELSE Merge(rq, [pc |-> "fetchGroup"])]
  /\ UNCHANGED <<store, env, now, ticks, scope, adm, script>>

\* getGroupNameCached, second half: getGroupSummary, then cacheGroupName.
FetchGroupName(r) ==
  /\ req[r].pc = "fetchGroup"
  /\ \E apiOk \in {o /\ env.LINE_CHANNEL_ACCESS_TOKEN : o \in scope.apis},
        ok \in scope.oks :
       LET g == req[r].ev.source.groupId
           rq == Merge(req[r],
                   Called(req[r], {"summary", "upsert_group_name"}) @@
                   StoreAnswer(req[r], "upsert_group_name", ok) @@
                   Resolved(req[r], apiOk, ok, getGroupSummary(g, apiOk)))
       IN /\ group_names' = IF ok
                            THEN upsert_group_name(group_names, g,
                                                   getGroupSummary(g, apiOk), now)
                            ELSE group_names
          /\ req' = [req EXCEPT ![r] = Merge(rq, [pc |-> "userName"])]
  /\ UNCHANGED <<message_counts, user_names, allowed_groups, env, now, ticks, scope, adm, script>>

\* Mutant: the increment asks for the month of the clock at the time of the
\* call.
Increment_current_month(r) ==
  /\ req[r].pc = "increment"
  /\ LET rq == Merge(req[r], Called(req[r], {"increment_message_count"}))
         g == rq.ev.source.groupId
         u == rq.ev.source.userId
         ym == getCurrentYearMonth(now)
     IN \E ok \in scope.oks :
          IF ok
          THEN /\ message_counts' =
                    increment_message_count(message_counts, g, u, ym)
               /\ req' = [req EXCEPT ![r] =
                            Merge(rq, [pc |-> "loop",
                                       processedCount |-> rq.processedCount + 1,
                                       incLog |-> rq.incLog (+)
                                                  SetToBag({<<g, u, ym>>})])]
          ELSE /\ message_counts' = message_counts
               /\ req' = [req EXCEPT ![r] =
                            Merge(rq, [pc |-> "loop"] @@
                                      StoreAnswer(rq, "increment_message_count", ok))]
  /\ UNCHANGED <<user_names, group_names, allowed_groups, env, now, ticks, scope, adm, script>>

\* Mutant: an event whose key another delivery has counted is not counted
\* again.
Increment_once(r) ==
  /\ req[r].pc = "increment"
  /\ LET rq == Merge(req[r], Called(req[r], {"increment_message_count"}))
         g == rq.ev.source.groupId
         u == rq.ev.source.userId
     IN IF \E o \in Requests \ {r} : CopiesIn(<<g, u, rq.yearMonth>>, req[o].incLog) > 0
        THEN /\ message_counts' = message_counts
             /\ req' = [req EXCEPT ![r] = Merge(rq, [pc |-> "loop"])]
        ELSE /\ message_counts' =
                  increment_message_count(message_counts, g, u, rq.yearMonth)
             /\ req' = [req EXCEPT ![r] =
                          Merge(rq, [pc |-> "loop",
                                     processedCount |-> rq.processedCount + 1,
                                     incLog |-> rq.incLog (+)
                                                SetToBag({<<g, u, rq.yearMonth>>})])]
  /\ UNCHANGED <<user_names, group_names, allowed_groups, env, now, ticks, scope, adm, script>>

\* rpc("increment_message_count") with the request's yearMonth (lines 524-537).
Increment(r) ==
  /\ req[r].pc = "increment"
  /\ LET rq == Merge(req[r], Called(req[r], {"increment_message_count"}))
         g == rq.ev.source.groupId
         u == rq.ev.source.userId
     IN \E ok \in scope.oks :
          IF ok
          THEN /\ message_counts' =
                    increment_message_count(message_counts, g, u, rq.yearMonth)
               /\ req' = [req EXCEPT ![r] =
                            Merge(rq, [pc |-> "loop",
                                       processedCount |-> rq.processedCount + 1,
                                       incLog |-> rq.incLog (+)
                                                  SetToBag({<<g, u, rq.yearMonth>>})])]
          ELSE /\ message_counts' = message_counts
               /\ req' = [req EXCEPT ![r] =
                            Merge(rq, [pc |-> "loop"] @@
                                      StoreAnswer(rq, "increment_message_count", ok))]
  /\ UNCHANGED <<user_names, group_names, allowed_groups, env, now, ticks, scope, adm, script>>

\* The loop is over: the 200 response of lines 542-548.
Respond(r) ==
  /\ req[r].pc = "loop"
  /\ req[r].idx = req[r].len
  /\ req' = [req EXCEPT ![r] = Done(@, 200)]
  /\ UNCHANGED <<store, env, now, ticks, scope, adm, script>>

\* Time passes.
Tick ==
  /\ ticks < MaxTicks
  /\ \E d \in TickHours : now' = now + d
  /\ ticks' = ticks + 1
  /\ UNCHANGED <<store, env, scope, req, adm, script>>

Webhook(r) ==
  \/ Receive(r)
  \/ NextEvent(r)
  \/ Gate(r)
  \/ Stats(r)
  \/ GetUserName(r)
  \/ FetchUserName(r)
  \/ GetGroupName(r)
  \/ FetchGroupName(r)
  \/ Increment(r)
  \/ Respond(r)

Next == (\E r \in Requests : Webhook(r)) \/ Tick

Spec == Init /\ [][Next]_vars

NextConcurrent == \E r \in Requests : Webhook(r)

SpecConcurrent == InitConcurrent /\ [][NextConcurrent]_vars

\* ------------------------------------------------------- the name caches

\* Name resolution followed over time: a request with countable messages and report commands of group G1, in the fully configured
\* deployment; the store answers, the LINE API may fail.  The caches start
\* empty or with rows written some days before, under the name the id had
\* then; the clock advances by three days or by a week.
NameKinds ==
  { Event("message", TRUE, "group", "G1", "U1", "text", TxtPlain, FALSE),
    Event("message", TRUE, "group", "G1", "U1", "text", TxtStats, TRUE) }

NameTickHours == {72, 24 * UserTtlDays}

CachedBefore(id, days) == NameRow(id, <<"earlierName", id>>, 14 - 24 * days)

NamesSetup(sc, userCaches, groupCaches) ==
  /\ scope = sc
  /\ adm = IdleAdm
  /\ env = Env(ChannelSecret, TRUE)
  /\ allowed_groups = {"G1"}
  /\ message_counts = InitStore
  /\ user_names \in userCaches
  /\ group_names \in groupCaches
  /\ now = 14
  /\ ticks = 0
  /\ req = [r \in Requests |-> IdleReq]
  /\ ScriptIdle

InitNames ==
  NamesSetup(Scope({"r1"}, NameKinds, {TRUE}, BOOLEAN, TRUE, FALSE),
             { {}, {CachedBefore("U1", 3)}, {CachedBefore("U1", UserTtlDays)},
               {CachedBefore("U1", 3), CachedBefore("U2", 10)} },
             { {}, {CachedBefore("G1", 10)}, {CachedBefore("G1", GroupTtlDays)} })

\* Two requests in flight together resolve the same names; the cached name
\* of user U1 is stale at the start, and the clock stands still.
InitNamesConcurrent ==
  NamesSetup(Scope(Requests, NameKinds, {TRUE}, BOOLEAN, TRUE, FALSE),
             { {CachedBefore("U1", UserTtlDays)} }, { {} })

TickNames ==
  /\ ticks < MaxTicks
  /\ \E d \in NameTickHours : now' = now + d
  /\ ticks' = ticks + 1
  /\ UNCHANGED <<store, env, scope, req, adm, script>>

NextNames == (\E r \in Requests : Webhook(r)) \/ TickNames

SpecNames == InitNames /\ [][NextNames]_vars

SpecNamesConcurrent == InitNamesConcurrent /\ [][NextConcurrent]_vars

\* ---------------------------------------------------------- a large group

\* rows of one (group, month) in the large group
MaxMembers == 250

\* A report is asked for a group in which MaxMembers users have a row for
\* the month, each with another count, while the profile endpoint fails:
\* every name of the report is the truncated id.
Member(k) == "M" \o ToString(k)

BigStore ==
  SetToBag({Row("G1", Member(k), YearMonthStr(2024, 12), k) : k \in 1..MaxMembers})

BigKinds ==
  { Event("message", TRUE, "group", "G1", "U1", "text", TxtStats, TRUE) }

InitBigGroup ==
  /\ scope = Scope({"r1"}, BigKinds, {TRUE}, {FALSE}, FALSE, FALSE)
  /\ adm = IdleAdm
  /\ env = Env(ChannelSecret, TRUE)
  /\ allowed_groups = {"G1"}
  /\ message_counts = BigStore
  /\ user_names = {}
  /\ group_names = {}
  /\ now = 14
  /\ ticks = 0
  /\ req = [r \in Requests |-> IdleReq]
  /\ ScriptIdle

\* The steps of a request whose events are report commands.
Reporting(r) ==
  \/ Receive(r)
  \/ NextEvent(r)
  \/ Gate(r)
  \/ Stats(r)
  \/ GetUserName(r)
  \/ FetchUserName(r)
  \/ Respond(r)

NextBigGroup == \E r \in Requests : Reporting(r)

SpecBigGroup == InitBigGroup /\ [][NextBigGroup]_vars

\* The length of a reply text in characters (an emoji counts as one).
RECURSIVE DecimalDigits(_)
DecimalDigits(n) == IF n < 10 THEN 1 ELSE 1 + DecimalDigits(n \div 10)

\* Of the fallback name: the characters kept and "...".  A display name is
\* taken at its least length.
NameLength(name) == IF name[1] = "substring" THEN name[3] + 3 ELSE 1

\* `${medal} ${displayName}: ${stat.count} <unit>`: the medal is one emoji
\* for the ranks 1 to 3 and `${rank}.` after them.
LineLength(rank, line) ==
  (IF rank <= 3 THEN 1 ELSE DecimalDigits(rank) + 1)
  + 1 + NameLength(line.name) + 2 + DecimalDigits(line.count) + 2

\* statsLines.join("\n"), the lines lo..hi of it
RECURSIVE LinesLength(_, _, _)
LinesLength(lines, lo, hi) ==
  IF lo > hi THEN 0
  ELSE IF lo = hi
  THEN LineLength(lo, lines[lo]) + (IF lo < Len(lines) THEN 1 ELSE 0)
  ELSE LinesLength(lines, lo, (lo + hi) \div 2)
       + LinesLength(lines, (lo + hi) \div 2 + 1, hi)

\* Line 474: a heading of 2 + digits + 5 characters and two newlines, the
\* lines joined by newlines, two newlines, a total line of 6 + digits + 4
\* characters, a newline, and a line of 8 + digits + 2 characters.
TextLength(reply) ==
  2 + DecimalDigits(reply.month) + 5 + 2
  + LinesLength(reply.lines, 1, Len(reply.lines))
  + 2 + 6 + DecimalDigits(reply.total) + 4
  + 1 + 8 + DecimalDigits(reply.active) + 2

\* ------------------------------------------------- the clock at new year

\* Report commands and countable messages handled around midnight of
\* 2025-01-01 at UTC+9, which is 15:00Z of 2024-12-31: the request arrives
\* at 14:00Z and the clock advances by an hour.  One of the commands carries
\* a year of its own.
ClockKinds ==
  { Event("message", TRUE, "group", "G1", "U1", "text", TxtPlain, FALSE),
    Event("message", TRUE, "group", "G1", "U1", "text", TxtStats, TRUE),
    Event("message", TRUE, "group", "G1", "U2", "text", TxtStatsYear, TRUE) }

InitClock ==
  Setup(Scope({"r1"}, ClockKinds, {TRUE}, {TRUE}, FALSE, FALSE),
        {[env |-> Env(ChannelSecret, TRUE), allowed |-> {"G1"}]})

TickClock ==
  /\ ticks < MaxTicks
  /\ now' = now + 1
  /\ ticks' = ticks + 1
  /\ UNCHANGED <<store, env, scope, req, adm, script>>

NextClock == (\E r \in Requests : Webhook(r)) \/ TickClock

SpecClock == InitClock /\ [][NextClock]_vars

\* ------------------------------------------------------------ redelivery

\* The platform delivers a payload and delivers it again: two requests
\* whose batches hold the same event, as often as the body says, in the
\* fully configured deployment; no call fails.  The second delivery may
\* come while the first is handled or after it, and the clock may pass
\* midnight of 2025-01-01 at UTC+9 in between.
RedeliveredKinds ==
  { Event("message", TRUE, "group", "G1", "U1", "text", TxtPlain, FALSE),
    Event("message", TRUE, "group", "G1", "U2", "text", TxtPlain, TRUE),
    Event("message", TRUE, "group", "G1", "U1", "text", TxtStats, TRUE),
    Event("message", TRUE, "group", "G2", "U1", "text", TxtPlain, TRUE) }

InitRedelivery ==
  \E ev \in RedeliveredKinds :
    Setup(Scope(Requests, {ev}, {TRUE}, {TRUE}, FALSE, FALSE),
          {[env |-> Env(ChannelSecret, TRUE), allowed |-> {"G1"}]})

SpecRedelivery == InitRedelivery /\ [][NextClock]_vars

\* ------------------------------------------------ store calls that fail

\* A request with report commands, countable messages and events without
\* source, in the fully configured deployment; every call to the store may
\* return an error, and the errors are logged.
FailKinds ==
  { Event("message", TRUE, "group", "G1", "U1", "text", TxtPlain, FALSE),
    Event("message", TRUE, "group", "G1", "U1", "text", TxtStats, TRUE),
    Event("message", FALSE, "", "", "", "text", TxtPlain, TRUE) }

InitStoreFail ==
  Setup(Scope({"r1"}, FailKinds, BOOLEAN, {TRUE}, TRUE, FALSE),
        {[env |-> Env(ChannelSecret, TRUE), allowed |-> {"G1"}]})

SpecStoreFail == InitStoreFail /\ [][NextConcurrent]_vars

\* ------------------------------------------- calls that never complete

\* The call the request awaits at its position (an rpc or select through the
\* store client, or the fetch of getUserProfile or getGroupSummary) is never
\* answered.  No call is given a timeout or an abort signal, so the await
\* does not return and the handler stays where it is.
Hang(r) ==
  /\ req[r].pc \in {"gate", "stats", "userName", "fetchUser", "groupName",
                    "fetchGroup", "increment"}
  /\ req' = [req EXCEPT ![r] = Merge(@, [pc |-> "hung"])]
  /\ UNCHANGED <<store, env, now, ticks, scope, adm, script>>

InitHang ==
  Setup(Scope({"r1"}, NameKinds, {TRUE}, BOOLEAN, FALSE, FALSE),
        {[env |-> Env(ChannelSecret, TRUE), allowed |-> {"G1"}]})

NextHang == \E r \in Requests : Webhook(r) \/ Hang(r)

\* The runtime resumes a handler whose awaited call has completed.
FairHang == \A r \in Requests : WF_vars(Webhook(r))

SpecHang == InitHang /\ [][NextHang]_vars /\ FairHang

\* ------------------------------------------------ the texts of the parser

\* The texts a message may carry, put together from the parts of a command:
\* the "@", the name, what stands between name and month, the month, and
\* the keyword, each present, absent or replaced; then nothing, a second
\* command, or the directive alone.
TextAts == {<<"@">>, <<>>}
TextNames == {<<"Bot">>, <<"bot">>, <<"x">>, <<>>}
TextGaps == {<<>>, <<" ">>, <<" ", " ">>, <<"x">>}
TextMonths ==
  {<<>>, <<"0">>, <<"1">>, <<"9">>, <<"0", "0">>, <<"0", "1">>, <<"1", "2">>,
   <<"1", "3">>, <<"9", "9">>, <<"1", "2", "3">>}
TextKeywords == {<<KW>>, <<"x">>, <<>>}
TextTails == {<<>>, <<"@", "Bot", "1", KW>>, <<"1", KW>>}

ParserTexts ==
  {a \o n \o g \o m \o k \o t :
     a \in TextAts, n \in TextNames, g \in TextGaps, m \in TextMonths,
     k \in TextKeywords, t \in TextTails}

\* A request whose events are text messages of one of these texts, sent
\* with a reply token to the allow-listed group of the fully configured
\* deployment; no call fails.
InitParser ==
  \E text \in ParserTexts :
    Setup(Scope({"r1"},
                {Event("message", TRUE, "group", "G1", "U1", "text", text, TRUE)},
                {TRUE}, {TRUE}, FALSE, FALSE),
          {[env |-> Env(ChannelSecret, TRUE), allowed |-> {"G1"}]})

SpecParser == InitParser /\ [][NextConcurrent]_vars

\* ------------------------------------------------ admin-import: the handler

\* entries of one import (lines of data that match /^(.+?):\s*(\d+)$/)
MaxEntries == 2

\* What a line of data may name, and the counts it may give (\d+: no sign).
ImportNames == {getUserProfile(u, TRUE) : u \in Users}
ImportCounts == {0, 5}

\* Mutant: the delete filters on the group only.
delete_message_counts_of_group(mc, g, ym) ==
  LET keep == {row \in BagToSet(mc) : row.group_id # g}
  IN [row \in keep |-> mc[row]]

\* from("message_counts").delete().eq("group_id", g).eq("year_month", ym)
delete_message_counts(mc, g, ym) ==
  LET keep == {row \in BagToSet(mc) : ~(row.group_id = g /\ row.year_month = ym)}
  IN [row \in keep |-> mc[row]]

\* from("message_counts").upsert({group_id, user_id, year_month, count},
\*   {onConflict: "group_id,user_id,year_month"})
upsert_message_count(mc, g, u, ym, c) ==
  IF \E row \in BagToSet(mc) : SameKey(row, g, u, ym)
  THEN BagOfAll(LAMBDA row : IF SameKey(row, g, u, ym)
                             THEN [row EXCEPT !.count = c]
                             ELSE row, mc)
  ELSE mc (+) SetToBag({Row(g, u, ym, c)})

\* from("user_names").select("user_id").eq("user_name", name).limit(1).single():
\* the ids the store may return; none when no row has the name.
SelectUserByName(un, name) == {row.id : row \in {x \in un : x.name = name}}

\* results.push({name, status, count, user_id})
Pushed(a, status, userId) ==
  IF scope.log
  THEN Append(a.results, [name |-> a.entry.name, status |-> status,
                          count |-> a.entry.count, user_id |-> userId])
  ELSE a.results

AdmDone(a, status) ==
  Merge(a, [pc |-> "done", status |-> status, entry |-> IdleAdm.entry,
            userId |-> ""])

\* From the method check to the first store call (lines 20-107): the admin
\* key, the JSON body, the required fields, the parse of data.
AdminReceive ==
  /\ adm.pc = "idle"
  /\ scope.admin
  /\ \E input \in {"GET", "OPTIONS", "bad key", "bad json", "no fields", "import"},
        mode \in {"update", "replace"}, n \in 0..MaxEntries :
       /\ input # "import" => (mode = "update" /\ n = 0)
       /\ adm' =
            IF input = "OPTIONS" THEN AdmDone(adm, 204)
            ELSE IF input = "GET" THEN AdmDone(adm, 405)
            ELSE IF input = "bad key" THEN AdmDone(adm, 401)
            ELSE IF input = "bad json" THEN AdmDone(adm, 500)
            ELSE IF input = "no fields" THEN AdmDone(adm, 400)
            ELSE LET a == Merge(adm, [mode |-> mode, group_id |-> "G1",
                                      year_month |-> YearMonthStr(2024, 12),
                                      n |-> n])
                 IN IF n = 0 THEN AdmDone(a, 400)
                    ELSE IF mode = "replace" THEN Merge(a, [pc |-> "delete"])
                    ELSE Merge(a, [pc |-> "lookup"])
  /\ UNCHANGED <<store, env, now, ticks, scope, req, script>>

\* Mode "replace": the delete of lines 110-124.
AdminDelete ==
  /\ adm.pc = "delete"
  /\ \E ok \in scope.oks :
       IF ok
       THEN /\ message_counts' =
                 delete_message_counts(message_counts, adm.group_id, adm.year_month)
            /\ adm' = Merge(adm, [pc |-> "lookup"])
       ELSE /\ message_counts' = message_counts
            /\ adm' = AdmDone(adm, 500)
  /\ UNCHANGED <<user_names, group_names, allowed_groups, env, now, ticks, scope, req, script>>

\* The next entry and the lookup of its user id by name (lines 130-144).
AdminLookup ==
  /\ adm.pc = "lookup"
  /\ adm.k < adm.n
  /\ \E name \in ImportNames, c \in ImportCounts, ok \in scope.oks :
       LET a == Merge(adm, [entry |-> [name |-> name, count |-> c]])
           found == IF ok THEN SelectUserByName(user_names, name) ELSE {}
       IN \/ /\ found = {}
             /\ adm' = Merge(a, [k |-> adm.k + 1,
                                 results |-> Pushed(a, "not_found", "")])
          \/ \E u \in found :
               adm' = Merge(a, [pc |-> "upsert", userId |-> u])
  /\ UNCHANGED <<store, env, now, ticks, scope, req, script>>

\* The upsert of the entry's count (lines 148-163); an error is recorded in
\* the results and the loop goes on.
AdminUpsert ==
  /\ adm.pc = "upsert"
  /\ \E ok \in scope.oks :
       /\ message_counts' =
            IF ok
            THEN upsert_message_count(message_counts, adm.group_id, adm.userId,
                                      adm.year_month, adm.entry.count)
            ELSE message_counts
       /\ adm' = Merge(adm, [pc |-> "lookup", k |-> adm.k + 1,
                             results |-> Pushed(adm, IF ok THEN "success" ELSE "error",
                                                adm.userId)])
  /\ UNCHANGED <<user_names, group_names, allowed_groups, env, now, ticks, scope, req, script>>

\* The 200 response of lines 166-186.
AdminRespond ==
  /\ adm.pc = "lookup"
  /\ adm.k = adm.n
  /\ adm' = AdmDone(adm, 200)
  /\ UNCHANGED <<store, env, now, ticks, scope, req, script>>

AdminImport ==
  \/ AdminReceive
  \/ AdminDelete
  \/ AdminLookup
  \/ AdminUpsert
  \/ AdminRespond

\* A webhook request and an admin import in flight together; no call fails.
\* The name of U2 is cached, as after an earlier message of theirs.
AdminKinds ==
  { Event("message", TRUE, "group", "G1", "U1", "text", TxtPlain, TRUE),
    Event("message", TRUE, "group", "G1", "U2", "text", TxtPlain, FALSE),
    Event("message", TRUE, "group", "G1", "U1", "text", TxtStats, TRUE) }

InitAdmin ==
  /\ scope = Scope({"r1"}, AdminKinds, {TRUE}, {TRUE}, FALSE, TRUE)
  /\ adm = IdleAdm
  /\ env = Env(ChannelSecret, TRUE)
  /\ allowed_groups = {"G1"}
  /\ message_counts = InitStore
  /\ user_names = {NameRow("U2", getUserProfile("U2", TRUE), 14)}
  /\ group_names = {}
  /\ now = 14
  /\ ticks = 0
  /\ req = [r \in Requests |-> IdleReq]
  /\ ScriptIdle

NextAdmin == (\E r \in Requests : Webhook(r)) \/ AdminImport

SpecAdmin == InitAdmin /\ [][NextAdmin]_vars

\* An admin import of (G1, 2024-12) on its own, over a table that also holds
\* rows of another group and of another month.  The names of some users are
\* cached, every call to the store may return an error, and the results
\* are kept.
ImportStore ==
  SetToBag({Row("G1", "U1", YearMonthStr(2024, 12), 2),
            Row("G1", "U2", YearMonthStr(2024, 12), 1),
            Row("G1", "U2", YearMonthStr(2024, 11), 3),
            Row("G2", "U1", YearMonthStr(2024, 12), 4)})

InitImport ==
  /\ scope = Scope({}, {}, BOOLEAN, {TRUE}, TRUE, TRUE)
  /\ adm = IdleAdm
  /\ env = Env(ChannelSecret, TRUE)
  /\ allowed_groups = {"G1"}
  /\ message_counts = ImportStore
  /\ \E cached \in SUBSET Users :
       user_names = {NameRow(u, getUserProfile(u, TRUE), 14) : u \in cached}
  /\ group_names = {}
  /\ now = 14
  /\ ticks = 0
  /\ req = [r \in Requests |-> IdleReq]
  /\ ScriptIdle

SpecImport == InitImport /\ [][AdminImport]_vars

\* ---------------------------------------------- Apps Script: the handler

\* What the Apps Script leaves alone: the tables, requests and clock of the
\* edge functions.
edge == <<message_counts, user_names, group_names, allowed_groups, env, now,
          ticks, scope, req, adm>>

\* CACHE.get(key): the value, or Null
CacheGet(c, key) ==
  IF \E e \in c : e[1] = key THEN (CHOOSE e \in c : e[1] = key)[2] ELSE Null

\* CACHE.put(key, value, 21600)
CachePut(c, key, value) == {e \in c : e[1] # key} \cup {<<key, value>>}

GroupCacheKey(g) == <<"groupName:", g>>
UserCacheKey(g, u) == <<g, ":", u>>

\* fetchNamesInParallel_: the cached names; what is not cached is requested
\* from LINE, a 200 answer is cached, and the id stands in for a name that
\* could not be fetched.
fetchNamesInParallel_(c, groupId, userId, groupOk, userOk) ==
  LET cachedGroupName == CacheGet(c, GroupCacheKey(groupId))
      cachedDisplayName == CacheGet(c, UserCacheKey(groupId, userId))
      groupName == IF cachedGroupName # Null THEN cachedGroupName
                   ELSE IF groupOk THEN LineGroupName(groupId)
                   ELSE <<groupId>>
      displayName == IF cachedDisplayName # Null THEN cachedDisplayName
                     ELSE IF userOk THEN LineDisplayName(userId)
                     ELSE <<userId>>
      c1 == IF cachedGroupName = Null /\ groupOk
            THEN CachePut(c, GroupCacheKey(groupId), groupName) ELSE c
      c2 == IF cachedDisplayName = Null /\ userOk
            THEN CachePut(c1, UserCacheKey(groupId, userId), displayName) ELSE c1
  IN [groupName |-> groupName, displayName |-> displayName, cache |-> c2]

\* The data rows of the sheet of that name; none when there is no such sheet.
DataRows(sh, name) == IF name \in DOMAIN sh THEN sh[name] ELSE <<>>

\* One change to a range of a sheet: data row index gets the cells given
\* (a user id "" or a display name Null: the cell is not part of the range).
Change(name, index, userId, displayName, count) ==
  [sheet |-> name, index |-> index, userId |-> userId,
   displayName |-> displayName, count |-> count]

ApplyChange(sh, ch) ==
  LET rows == DataRows(sh, ch.sheet)
      old == IF ch.index <= Len(rows) THEN rows[ch.index]
             ELSE SheetRow("", Null, 0)
      new == SheetRow(IF ch.userId # "" THEN ch.userId ELSE old.userId,
                      IF ch.displayName # Null THEN ch.displayName
                      ELSE old.displayName,
                      ch.count)
      rows2 == IF ch.index <= Len(rows) THEN [rows EXCEPT ![ch.index] = new]
               ELSE Append(rows, new)
  IN [n \in DOMAIN sh \cup {ch.sheet} |-> IF n = ch.sheet THEN rows2 ELSE sh[n]]

\* The pending changes of an execution applied to the spreadsheet, in the
\* order they were made.
RECURSIVE Applied(_, _)
Applied(sh, pending) ==
  IF pending = <<>> THEN sh
  ELSE Applied(ApplyChange(sh, Head(pending)), Tail(pending))

\* The execution ends: doPost returned, or an exception left it.
ExeEnd(e, pc, status) ==
  Merge(e, [pc |-> pc, status |-> status, ev |-> NoGasEvent, monthKey |-> Null,
            groupName |-> <<>>, displayName |-> <<>>, monthCommand |-> Null,
            sheetName |-> Null, rowIndex |-> 0, lastRow |-> 0,
            currentCount |-> 0, currentDisplayName |-> <<>>,
            thrown |-> FALSE, pending |-> <<>>])

\* The next turn of payload.events.forEach.
ExeLoop(e) ==
  Merge(e, [pc |-> "loop", ev |-> NoGasEvent, monthKey |-> Null,
            groupName |-> <<>>, displayName |-> <<>>, monthCommand |-> Null,
            sheetName |-> Null, rowIndex |-> 0, lastRow |-> 0,
            currentCount |-> 0, currentDisplayName |-> <<>>])

\* doPost up to the forEach (lines 265-290): a request without post data or
\* with a body that is no JSON is answered 400, one without events 200.
GasReceive(x) ==
  /\ exe[x].pc = "idle"
  /\ x \in scope.requests
  /\ \E input \in {"no postData", "bad json", "no events", "batch"},
        n \in 1..MaxBatch :
       /\ input # "batch" => n = 1
       /\ exe' = [exe EXCEPT ![x] =
                    IF input \in {"no postData", "bad json"} THEN ExeEnd(@, "done", 400)
                    ELSE IF input = "no events" THEN ExeEnd(@, "done", 200)
                    ELSE Merge(@, [pc |-> "loop", len |-> n])]
  /\ UNCHANGED <<edge, sheets, cache, lock>>

\* The event passes the tests of lines 293-318.
Countable(ev) ==
  /\ ev.type = "message"
  /\ ev.source.present /\ ev.source.type = "group"
  /\ ev.source.userId # "" /\ ev.source.groupId # ""
  /\ (ALLOWED_GROUP_IDS # {} => ev.source.groupId \in ALLOWED_GROUP_IDS)
  /\ ev.message.type = "text"

\* forEach takes the next event (lines 292-321).
GasNextEvent(x) ==
  /\ exe[x].pc = "loop"
  /\ exe[x].idx < exe[x].len
  /\ \E ev \in scope.kinds :
       exe' = [exe EXCEPT ![x] =
                 IF Countable(ev)
                 THEN Merge(@, [pc |-> "names", idx |-> @.idx + 1, ev |-> ev,
                                monthKey |-> formatMonthKey(ev.timestamp)])
                 ELSE Merge(@, [idx |-> @.idx + 1])]
  /\ UNCHANGED <<edge, sheets, cache, lock>>

\* Lines 324-327: the names and the month command of the event.
GasNames(x) ==
  /\ exe[x].pc = "names"
  /\ \E groupOk \in scope.apis, userOk \in scope.apis :
       LET e == exe[x]
           names == fetchNamesInParallel_(cache, e.ev.source.groupId,
                                          e.ev.source.userId, groupOk, userOk)
       IN /\ cache' = names.cache
          /\ exe' = [exe EXCEPT ![x] =
                       Merge(@, [pc |-> "waitLock",
                                 groupName |-> names.groupName,
                                 displayName |-> names.displayName,
                                 monthCommand |->
                                   extractMonthCommand_(e.ev.message.text,
                                                        e.ev.timestamp)])]
  /\ UNCHANGED <<edge, sheets, lock>>

\* incrementMessageCount_, lock.waitLock(30000) of line 694: the execution
\* gets the script lock when no execution holds it.
GasWaitLock(x) ==
  /\ exe[x].pc = "waitLock"
  /\ lock = NoOne
  /\ lock' = x
  /\ exe' = [exe EXCEPT ![x] = Merge(@, [pc |-> "read"])]
  /\ UNCHANGED <<edge, sheets, cache>>

\* waitLock throws when the lock stays taken for 30 seconds; the exception
\* leaves forEach and doPost, and the execution ends with its pending
\* changes applied.
GasLockTimeout(x) ==
  /\ exe[x].pc = "waitLock"
  /\ lock \notin {NoOne, x}
  /\ sheets' = Applied(sheets, exe[x].pending)
  /\ exe' = [exe EXCEPT ![x] = ExeEnd(@, "failed", 0)]
  /\ UNCHANGED <<edge, cache, lock>>

\* incrementGroupMonthlyCount_, lines 1049-1069: the sheet of the group and
\* month is looked up by name (and inserted when missing), its data rows are
\* read, and the row of the user is searched.  A read applies the pending
\* changes of the execution first.  A call of the Spreadsheet service may
\* throw.
GasRead(x) ==
  /\ exe[x].pc = "read"
  /\ \E ok \in scope.oks :
       LET e == exe[x]
           name == getGroupMonthSheetName_(e.ev.source.groupId, e.groupName,
                                           e.monthKey)
           sh == Applied(sheets, e.pending)
           rows == DataRows(sh, name)
           hits == {i \in 1..Len(rows) : rows[i].userId = e.ev.source.userId}
       IN IF ok
          THEN /\ sheets' = [n \in DOMAIN sh \cup {name} |-> DataRows(sh, n)]
               /\ exe' = [exe EXCEPT ![x] =
                    Merge(@, [pc |-> "write", pending |-> <<>>,
                              sheetName |-> name, lastRow |-> Len(rows),
                              rowIndex |-> IF hits = {} THEN 0 ELSE Min(hits),
                              currentCount |->
                                IF hits = {} THEN 0 ELSE rows[Min(hits)].count,
                              currentDisplayName |->
                                IF hits = {} THEN <<>>
                                ELSE rows[Min(hits)].displayName])]
          ELSE /\ sheets' = sheets
               /\ exe' = [exe EXCEPT ![x] =
                            Merge(@, [pc |-> "finally", thrown |-> TRUE])]
  /\ UNCHANGED <<edge, cache, lock>>

\* incrementGroupMonthlyCount_, lines 1071-1086: a new row with count 1
\* below the last row read, or the count read plus one in the user's row
\* (with the display name when it changed).  setValues and setValue leave
\* the change pending.
GasWrite(x) ==
  /\ exe[x].pc = "write"
  /\ \E ok \in scope.oks :
       LET e == exe[x]
           ch == IF e.rowIndex = 0
                 THEN Change(e.sheetName, e.lastRow + 1, e.ev.source.userId,
                             e.displayName, 1)
                 ELSE Change(e.sheetName, e.rowIndex, "",
                             IF e.currentDisplayName # e.displayName
                             THEN e.displayName ELSE Null,
                             e.currentCount + 1)
       IN exe' = [exe EXCEPT ![x] =
            IF ok
            THEN Merge(@, [pc |-> "finally",
                           pending |-> Append(e.pending, ch),
                           incs |-> e.incs \cup
                                      {<<e.idx, e.ev.source.groupId,
                                         e.ev.source.userId, e.monthKey>>}])
            ELSE Merge(@, [pc |-> "finally", thrown |-> TRUE])]
  /\ UNCHANGED <<edge, sheets, cache, lock>>

\* incrementMessageCount_, the finally of lines 705-707: lock.releaseLock().
\* An exception of the increment then leaves forEach and doPost, and the
\* execution ends with its pending changes applied.
GasRelease(x) ==
  /\ exe[x].pc = "finally"
  /\ lock' = IF lock = x THEN NoOne ELSE lock
  /\ IF exe[x].thrown
     THEN /\ sheets' = Applied(sheets, exe[x].pending)
          /\ exe' = [exe EXCEPT ![x] = ExeEnd(@, "failed", 0)]
     ELSE /\ sheets' = sheets
          /\ exe' = [exe EXCEPT ![x] =
                       IF @.monthCommand # Null
                       THEN Merge(@, [pc |-> "report"])
                       ELSE ExeLoop(@)]
  /\ UNCHANGED <<edge, cache>>

\* rows.sort(function(a, b) { return b.count - a.count; }): by count,
\* highest first, rows of equal count in the order of the sheet.
SortByCountDesc(rows) ==
  LET n == Len(rows)
      rank(i) == 1 + Cardinality({j \in 1..n :
                        \/ rows[j].count > rows[i].count
                        \/ rows[j].count = rows[i].count /\ j < i})
  IN [k \in 1..n |-> rows[CHOOSE i \in 1..n : rank(i) = k]]

\* buildMonthlyReport_: the lines "name count" of the rows with a positive
\* count of the sheet of the group and the month asked for; none stands for
\* the text of "no data".
buildMonthlyReport_(sh, groupId, groupName, command) ==
  LET rows == DataRows(sh, getGroupMonthSheetName_(groupId, groupName,
                                                   command.monthKey))
      shown == SelectSeq(rows, LAMBDA row : row.count > 0)
  IN [monthLabel |-> command.monthLabel,
      lines |-> [k \in 1..Len(shown) |->
                   <<SortByCountDesc(shown)[k].displayName,
                     SortByCountDesc(shown)[k].count>>]]

\* Lines 334-343: a month command that mentions the bot is answered with
\* the report, when the event has a reply token.  getBotDisplayName_ takes
\* the name from the script property and caches it.  Reading the sheet
\* applies the pending changes of the execution first.
GasReport(x) ==
  /\ exe[x].pc = "report"
  /\ LET e == exe[x]
         sh == Applied(sheets, e.pending)
     IN /\ cache' = CachePut(cache, <<"botDisplayName">>, <<BOT_DISPLAY_NAME>>)
        /\ IF isBotMentioned_(e.ev.message, BotUserId, BOT_DISPLAY_NAME)
           THEN /\ sheets' = sh
                /\ exe' = [exe EXCEPT ![x] =
                     ExeLoop(Merge(@, [pending |-> <<>>,
                        replies |->
                          IF e.ev.replyToken
                          THEN Append(e.replies,
                                 [idx |-> e.idx,
                                  report |-> buildMonthlyReport_(sh,
                                     e.ev.source.groupId, e.groupName,
                                     e.monthCommand)])
                          ELSE e.replies]))]
           ELSE /\ sheets' = sheets
                /\ exe' = [exe EXCEPT ![x] = ExeLoop(@)]
  /\ UNCHANGED <<edge, lock>>

\* The Spreadsheet service applies the pending changes of an execution: at
\* some time after they were made, at the latest when the execution reads
\* the spreadsheet again or ends.  Nothing between setValue and
\* lock.releaseLock() calls SpreadsheetApp.flush().
GasFlush(x) ==
  /\ exe[x].pending # <<>>
  /\ exe[x].pc \in {"finally", "report", "loop", "names", "waitLock"}
  /\ sheets' = Applied(sheets, exe[x].pending)
  /\ exe' = [exe EXCEPT ![x] = Merge(@, [pending |-> <<>>])]
  /\ UNCHANGED <<edge, cache, lock>>

\* Line 346: forEach is through, doPost answers 200, and the execution ends
\* with its pending changes applied.
GasRespond(x) ==
  /\ exe[x].pc = "loop"
  /\ exe[x].idx = exe[x].len
  /\ sheets' = Applied(sheets, exe[x].pending)
  /\ exe' = [exe EXCEPT ![x] = ExeEnd(@, "done", 200)]
  /\ UNCHANGED <<edge, cache, lock>>

doPost(x) ==
  \/ GasReceive(x)
  \/ GasNextEvent(x)
  \/ GasNames(x)
  \/ GasWaitLock(x)
  \/ GasRead(x)
  \/ GasWrite(x)
  \/ GasRelease(x)
  \/ GasReport(x)
  \/ GasFlush(x)
  \/ GasRespond(x)

\* The events the web app receives: plain messages of two users of group
\* G1, month commands that mention the bot (in the text, or as a mentionee)
\* or do not, a command for month 13, a sticker, and a message of a group
\* that is not allowed.
ScriptKinds ==
  { GasEvent("message", TRUE, "group", "G1", "U1", "text", GasPlain, {}, TRUE, 14),
    GasEvent("message", TRUE, "group", "G1", "U1", "text", GasCmd, {}, TRUE, 14),
    GasEvent("message", TRUE, "group", "G1", "U2", "text", GasCmdSpaced,
             {BotUserId}, TRUE, 14),
    GasEvent("message", TRUE, "group", "G1", "U2", "text", GasCmdSpaced, {}, TRUE, 14),
    GasEvent("message", TRUE, "group", "G1", "U1", "text", GasBadMonth, {}, TRUE, 14),
    GasEvent("message", TRUE, "group", "G1", "U1", "sticker", NoText, {}, TRUE, 14),
    GasEvent("message", TRUE, "group", "G2", "U1", "text", GasPlain, {}, TRUE, 14) }

\* The sheet of group G1 for 2024-12 holds a row of U2.
ScriptSheets ==
  [name \in {getGroupMonthSheetName_("G1", LineGroupName("G1"),
                                     YearMonthStr(2024, 12))}
     |-> <<SheetRow("U2", LineDisplayName("U2"), 3)>>]

ScriptSetup(sc) ==
  /\ scope = sc
  /\ adm = IdleAdm
  /\ env = Env(ChannelSecret, TRUE)
  /\ allowed_groups = {"G1"}
  /\ message_counts = EmptyBag
  /\ user_names = {}
  /\ group_names = {}
  /\ now = 14
  /\ ticks = 0
  /\ req = [r \in Requests |-> IdleReq]
  /\ sheets = ScriptSheets
  /\ cache = {}
  /\ lock = NoOne
  /\ exe = [x \in Executions |-> IdleExe]

\* One execution, every kind of event; a request to LINE may fail and a
\* call of the Spreadsheet service may throw.
InitScript ==
  ScriptSetup(Scope({"x1"}, ScriptKinds, BOOLEAN, BOOLEAN, FALSE, FALSE))

NextScript == \E x \in Executions : doPost(x)

SpecScript == InitScript /\ [][NextScript]_vars

\* Two executions in flight together, with plain messages of a user who has
\* a row and of one who has none, and a month command; the requests to LINE
\* succeed, a call of the Spreadsheet service may throw.
ScriptConcurrentKinds ==
  { GasEvent("message", TRUE, "group", "G1", "U1", "text", GasPlain, {}, TRUE, 14),
    GasEvent("message", TRUE, "group", "G1", "U2", "text", GasPlain, {}, TRUE, 14),
    GasEvent("message", TRUE, "group", "G1", "U1", "text", GasCmd, {}, TRUE, 14) }

InitScriptConcurrent ==
  ScriptSetup(Scope(Executions, ScriptConcurrentKinds, BOOLEAN, {TRUE}, FALSE, FALSE))

NextScriptConcurrent ==
  \E x \in Executions : doPost(x) \/ GasLockTimeout(x)

SpecScriptConcurrent == InitScriptConcurrent /\ [][NextScriptConcurrent]_vars

\* ------------------------------------------------------------- properties

RECURSIVE SumRows(_, _)
SumRows(rows, mc) ==
  IF rows = {} THEN 0
  ELSE LET row == CHOOSE x \in rows : TRUE
       IN row.count * mc[row] + SumRows(rows \ {row}, mc)

\* The count stored for a key <<group, user, year_month>>: 0 without a row.
StoredCount(mc, key) ==
  SumRows({row \in BagToSet(mc) : SameKey(row, key[1], key[2], key[3])}, mc)

KeyOf(row) == <<row.group_id, row.user_id, row.year_month>>

\* The keys with a row now or at the start, or with a logged increment.
KeysInPlay ==
  {KeyOf(row) : row \in BagToSet(message_counts) \cup BagToSet(InitStore)}
    \cup UNION {BagToSet(req[r].incLog) : r \in Requests}

RECURSIVE SumLogged(_, _)
SumLogged(rs, key) ==
  IF rs = {} THEN 0
  ELSE LET r == CHOOSE x \in rs : TRUE
       IN CopiesIn(key, req[r].incLog) + SumLogged(rs \ {r}, key)

InFlight(r) == req[r].pc \notin {"idle", "done"}

\* The request passed the signature check.
Verified(r) ==
  /\ req[r].method = "POST"
  /\ env.LINE_CHANNEL_SECRET # ""
  /\ req[r].sig = Hmac(env.LINE_CHANNEL_SECRET, req[r].body)

\* C1: with requests running concurrently, the count stored for every key is
\* its count at the start plus the number of increments that succeeded for
\* it, over all requests: no interleaving loses an update.
C1_NoLostUpdate ==
  \A key \in KeysInPlay :
    StoredCount(message_counts, key) =
      StoredCount(InitStore, key) + SumLogged(Requests, key)

\* C1 witness: two requests in flight at once have each incremented the
\* same key.
C1_Witness ==
  \E key \in KeysInPlay :
    \A r \in Requests : InFlight(r) /\ CopiesIn(key, req[r].incLog) >= 1

\* The current event of r is a report command.
IsReportCommand(r) ==
  /\ req[r].ev # NoEvent
  /\ parseStatsRequest(req[r].ev.message.text, env.LINE_BOT_NAME, now) # Null

\* C2: an event whose text parseStatsRequest classifies as a report command
\* never reaches the increment, whether or not a reply was sent for it.
C2_CommandNotCounted ==
  \A r \in Requests :
    IsReportCommand(r) =>
      /\ "increment_message_count" \notin req[r].evCalls
      /\ req[r].pc \notin {"groupName", "fetchGroup", "increment"}
      /\ req[r].branch # "count"

\* C2 witness: a report command passed the gate and was fully handled
\* without a reply (it carries no replyToken).
C2_Witness ==
  \E r \in Requests :
    /\ IsReportCommand(r)
    /\ req[r].pc = "loop"
    /\ "is_group_allowed" \in req[r].evCalls
    /\ req[r].evReplies = <<>>
    /\ ~req[r].storeFailed

\* C3: where the channel secret is configured, a POST whose signature header
\* is missing or is not the HMAC of the received body under that secret is
\* answered 401 at once: the body is not parsed, no event is taken, no call
\* is made and the store is as it was.
C3_BadSignatureRejected ==
  \A r \in Requests :
    ( /\ req[r].pc = "done"
      /\ req[r].method = "POST"
      /\ env.LINE_CHANNEL_SECRET # ""
      /\ req[r].sig # Hmac(env.LINE_CHANNEL_SECRET, req[r].body) )
    => /\ req[r].status = 401
       /\ req[r].calls = {}
       /\ req[r].idx = 0
       /\ req[r].processedCount = 0
       /\ req[r].incLog = EmptyBag
       /\ message_counts = InitStore
       /\ user_names = {}
       /\ group_names = {}

\* C3 witness: a request signed by the platform whose body was changed after
\* signing has been answered 401.
C3_Witness ==
  \E r \in Requests, b \in Bodies :
    /\ req[r].pc = "done"
    /\ req[r].status = 401
    /\ b # req[r].body
    /\ req[r].sig = Hmac(env.LINE_CHANNEL_SECRET, b)

\* C4 (as claimed): a verified POST whose body is not parsable JSON is
\* answered 400, no event is processed and no store call is made.
C4_MalformedJsonIs400 ==
  \A r \in Requests :
    (req[r].pc = "done" /\ Verified(r) /\ req[r].body.json = "invalid")
    => /\ req[r].status = 400
       /\ req[r].idx = 0
       /\ req[r].calls \subseteq {"JSON.parse"}
       /\ message_counts = InitStore

\* C5 (as claimed): every verified POST with a JSON-parsable body is
\* answered 200, whatever happens while its events are processed.
C5_AlwaysAcknowledged ==
  \A r \in Requests :
    (req[r].pc = "done" /\ Verified(r) /\ req[r].body.json # "invalid")
    => req[r].status = 200

\* C6 (as claimed): whatever fails at one event, the loop goes on to every
\* later event of the batch: a finished request has taken all its events.
C6_SiblingsProcessed ==
  \A r \in Requests :
    (req[r].pc = "done" /\ Verified(r) /\ req[r].body.json = "batch")
    => req[r].idx = req[r].len

\* The current event of r passed lines 404-409 and its group is not in the
\* allow-list.
NotAllowedEvent(r) ==
  /\ req[r].ev.type = "message"
  /\ req[r].ev.source.present
  /\ req[r].ev.source.type = "group"
  /\ req[r].ev.source.groupId # ""
  /\ req[r].ev.source.userId # ""
  /\ req[r].ev.source.groupId \notin allowed_groups

\* C7: the gate is the first call made for an event; for an event of a group
\* outside the allow-list it is the only one (no counts read, no name cache
\* call, no reply, no increment), and the request stays in its loop.
C7_GateFirst ==
  \A r \in Requests :
    /\ req[r].evCalls # {} => "is_group_allowed" \in req[r].evCalls
    /\ NotAllowedEvent(r) =>
         /\ req[r].evCalls \subseteq {"is_group_allowed"}
         /\ req[r].evReplies = <<>>
         /\ req[r].pc \in {"gate", "loop"}
         /\ req[r].status = 0

\* C7 witness: with an empty allow-list an event was gated and skipped, and
\* the batch holds a further event.
C7_Witness ==
  \E r \in Requests :
    /\ allowed_groups = {}
    /\ NotAllowedEvent(r)
    /\ req[r].evCalls = {"is_group_allowed"}
    /\ ~req[r].storeFailed
    /\ req[r].pc = "loop"
    /\ req[r].idx < req[r].len

\* C8: in a request answered 200 with no store error, the increments logged
\* for a (group, user) are as many as the qualifying events of the batch
\* for it, all under the request's yearMonth, and the stored counts rose
\* by exactly that; nothing else was incremented.
C8_EligibleCountedOnce ==
  \A r \in Requests :
    (req[r].pc = "done" /\ req[r].status = 200 /\ ~req[r].storeFailed)
    => /\ \A key \in BagToSet(req[r].incLog) : key[3] = req[r].yearMonth
       /\ \A g \in Groups, u \in Users :
            CopiesIn(<<g, u, req[r].yearMonth>>, req[r].incLog) =
              CopiesIn(<<g, u>>, req[r].eligible)
       /\ req[r].processedCount = BagCardinality(req[r].incLog)
       /\ \A key \in KeysInPlay :
            StoredCount(message_counts, key) =
              StoredCount(InitStore, key) + CopiesIn(key, req[r].incLog)

\* C8 witness: a batch with two qualifying events of one user was answered
\* 200 and both were counted.
C8_Witness ==
  \E r \in Requests :
    /\ req[r].pc = "done" /\ req[r].status = 200 /\ ~req[r].storeFailed
    /\ CopiesIn(<<"G1", "U1">>, req[r].eligible) = 2
    /\ StoredCount(message_counts, <<"G1", "U1", req[r].yearMonth>>) = 2

\* C9: with webhook increments and admin imports interleaved, the table
\* holds at most one row per (group_id, user_id, year_month) and every
\* count is an integer >= 0.
C9_OneRowPerKey ==
  /\ \A row \in BagToSet(message_counts) :
       message_counts[row] = 1 /\ row.count \in Nat
  /\ \A a, b \in BagToSet(message_counts) : KeyOf(a) = KeyOf(b) => a = b

\* C9 witness: a key was imported with count 5 and then incremented by a
\* webhook request that was in flight with the import.
C9_Witness ==
  /\ \E row \in BagToSet(message_counts) : row.count = 6
  /\ adm.pc \notin {"idle", "done"}
  /\ \E r \in Requests : InFlight(r)

\* The rows of a key, as <<count, copies>>.
RowsOf(mc, key) ==
  {<<row.count, mc[row]>> :
     row \in {x \in BagToSet(mc) : SameKey(x, key[1], key[2], key[3])}}

\* C10: a step of a webhook request leaves message_counts as it is, or it
\* is the increment of one request: the row of its key is created with
\* count 1 or its count rises by 1, and every other row stays.
C10_WebhookAddsOne ==
  [][ \/ message_counts' = message_counts
      \/ \E r \in Requests :
           /\ req[r].pc = "increment"
           /\ LET key == <<req[r].ev.source.groupId, req[r].ev.source.userId,
                           req[r].yearMonth>>
              IN \A k \in {KeyOf(row) : row \in BagToSet(message_counts)
                                               \cup BagToSet(message_counts')}
                          \cup {key} :
                   RowsOf(message_counts', k) =
                     IF k # key THEN RowsOf(message_counts, k)
                     ELSE IF RowsOf(message_counts, k) = {} THEN {<<1, 1>>}
                     ELSE {<<p[1] + 1, p[2]>> : p \in RowsOf(message_counts, k)}
    ]_vars

\* C10 witness: a request has incremented a fresh key and an existing key,
\* and the row of the other group is as it was.
C10_Witness ==
  \E r \in Requests :
    /\ StoredCount(message_counts, <<"G1", "U1", req[r].yearMonth>>) = 1
    /\ StoredCount(message_counts, <<"G1", "U2", req[r].yearMonth>>) = 2
    /\ CopiesIn(<<"G1", "U1", req[r].yearMonth>>, req[r].incLog) = 1
    /\ CopiesIn(<<"G1", "U2", req[r].yearMonth>>, req[r].incLog) = 1
    /\ RowsOf(message_counts, <<"G2", "U1", YearMonthStr(2024, 12)>>) = {<<4, 1>>}

\* ------------------------------------------------ the name caches: claims

\* The logged calls of the name resolvers, each by its request and position.
ResCalls == UNION {{<<r, k>> : k \in DOMAIN req[r].res} : r \in Requests}

CallOf(c) == req[c[1]].res[c[2]]

\* The call has returned.
Returned(c) == CallOf(c).name # Null

TtlDays(kind) == IF kind = "user" THEN UserTtlDays ELSE GroupTtlDays

NameTable(kind) == IF kind = "user" THEN user_names ELSE group_names

\* The rows the call found for its id that were within the TTL of its class.
FreshRows(c) ==
  {row \in CallOf(c).rows :
     CallOf(c).at - row.updated_at < 24 * TtlDays(CallOf(c).kind)}

\* Two different calls of getUserNameCached for one user id, made less than
\* seven days apart.
SameUserInWindow(c, d) ==
  /\ c # d
  /\ CallOf(c).kind = "user" /\ CallOf(d).kind = "user"
  /\ CallOf(c).id = CallOf(d).id
  /\ CallOf(c).at - CallOf(d).at < 24 * UserTtlDays
  /\ CallOf(d).at - CallOf(c).at < 24 * UserTtlDays

C12_StaleNeverReused ==
  \A c \in ResCalls :
    /\ CallOf(c).fetched <=> FreshRows(c) = {}
    /\ ~CallOf(c).fetched => \E row \in FreshRows(c) : CallOf(c).name = row.name
    /\ (CallOf(c).fetched /\ Returned(c)) =>
         /\ CallOf(c).name \in {getUserProfile(CallOf(c).id, TRUE),
                                getUserProfile(CallOf(c).id, FALSE),
                                getGroupSummary(CallOf(c).id, TRUE),
                                getGroupSummary(CallOf(c).id, FALSE)}
         /\ {"profile", "summary"} \cap req[c[1]].calls # {}

\* C12 witness: a group row older than 14 days led to a fetch, and in the
\* same request a user row younger than 7 days was returned as it was.
C12_Witness ==
  \E c, d \in ResCalls :
    /\ c[1] = d[1]
    /\ CallOf(c).kind = "group" /\ CallOf(c).rows # {} /\ CallOf(c).fetched
    /\ Returned(c)
    /\ CallOf(d).kind = "user" /\ ~CallOf(d).fetched
    /\ \E row \in CallOf(d).rows : row.updated_at < CallOf(d).at

\* C13 (as claimed): when the external fetch of a call fails, the call
\* returns the stored name if a row for the id exists, stale as it is, and
\* the truncated id only when there is no row.
C13_StaleNameOnFailure ==
  \A c \in ResCalls :
    (CallOf(c).fetched /\ Returned(c) /\ ~CallOf(c).apiOk) =>
      IF CallOf(c).rows # {}
      THEN \E row \in CallOf(c).rows : CallOf(c).name = row.name
      ELSE CallOf(c).name \in {getUserProfile(CallOf(c).id, FALSE),
                               getGroupSummary(CallOf(c).id, FALSE)}

\* C14 (as claimed): after a call whose external fetch failed, the table
\* holds for the id what it held when the call read it.  (Stated of the
\* latest call of a request, after which nothing else has written.)
C14_FailedFetchWritesNothing ==
  \A r \in Requests :
    req[r].res # <<>> =>
      LET c == req[r].res[Len(req[r].res)] IN
        (c.fetched /\ c.name # Null /\ ~c.apiOk) =>
          {row \in NameTable(c.kind) : row.id = c.id} = c.rows

\* C15: each name cache holds at most one row per id, and after a write for
\* an id its row carries a written name and a timestamp not before the call
\* that wrote: nothing of the earlier row remains.
C15_OneNamePerId ==
  /\ \A kind \in {"user", "group"} :
       \A a, b \in NameTable(kind) : a.id = b.id => a = b
  /\ \A c \in ResCalls :
       CallOf(c).wrote =>
         \E row \in NameTable(CallOf(c).kind) :
           /\ row.id = CallOf(c).id
           /\ row.updated_at >= CallOf(c).at
           /\ \E d \in ResCalls :
                /\ CallOf(d).wrote /\ CallOf(d).kind = CallOf(c).kind
                /\ CallOf(d).id = row.id /\ CallOf(d).name = row.name

\* C15 witness: two requests missed the same user's name together, both
\* fetched and both wrote, with different outcomes of the fetch.
C15_Witness ==
  \E c, d \in ResCalls :
    /\ SameUserInWindow(c, d)
    /\ c[1] # d[1]
    /\ CallOf(c).rows # {} /\ CallOf(d).rows = CallOf(c).rows
    /\ CallOf(c).wrote /\ CallOf(d).wrote
    /\ CallOf(c).apiOk /\ ~CallOf(d).apiOk

\* ---------------------------------------------------- the report: claims

\* The user ids in ascending order, and the place of an id in it.
UserIdsAscending == <<"U1", "U2">>

IdRank(u) == CHOOSE k \in DOMAIN UserIdsAscending : UserIdsAscending[k] = u

\* The report replies sent for the current event of r.
ReportReplies(r) ==
  {k \in DOMAIN req[r].evReplies : req[r].evReplies[k].kind = "report"}

\* The rows stored for the (group, month) the current event of r asks for.
AskedRows(r) ==
  [row \in {x \in BagToSet(message_counts) :
              /\ x.group_id = req[r].ev.source.groupId
              /\ x.year_month = req[r].targetMonth} |-> message_counts[row]]

\* C16 (as claimed): the rows of a report come by descending count, and rows
\* of equal count by ascending user_id.
C16_TiesByUserId ==
  \A r \in Requests :
    ReportReplies(r) # {} =>
      \A i, j \in DOMAIN req[r].stats :
        i < j =>
          \/ req[r].stats[i].count > req[r].stats[j].count
          \/ /\ req[r].stats[i].count = req[r].stats[j].count
             /\ IdRank(req[r].stats[i].user_id) < IdRank(req[r].stats[j].user_id)

\* C17: a report reply always lists at least one row, and a report command
\* whose select found no row of its (group, month) is answered with the
\* "no data" text and nothing else.
C17_NoDataReply ==
  \A r \in Requests :
    /\ \A k \in ReportReplies(r) :
         /\ req[r].evReplies[k].lines # <<>>
         /\ req[r].evReplies[k].active > 0
         /\ BagToSet(AskedRows(r)) # {}
    /\ ( /\ req[r].branch = "stats" /\ req[r].pc = "loop"
         /\ ~req[r].storeFailed
         /\ BagToSet(AskedRows(r)) = {} )
       => req[r].evReplies =
            <<ReplyText("nodata", monthDisplay(req[r].targetMonth), <<>>, 0, 0)>>

\* C17 witness: a report command for a month without rows was answered.
C17_Witness ==
  \E r \in Requests :
    /\ req[r].branch = "stats" /\ req[r].pc = "loop"
    /\ BagToSet(AskedRows(r)) = {}
    /\ Len(req[r].evReplies) = 1
    /\ req[r].evReplies[1].kind = "nodata"
    /\ "reply" \in req[r].evCalls

\* C18: in a report reply the total is the sum of the counts of the rows
\* stored for the (group, month), the active number is the number of those
\* rows, and the lines are those rows, each once, with their counts.
C18_TotalsMatchRows ==
  \A r \in Requests :
    \A k \in ReportReplies(r) :
      LET reply == req[r].evReplies[k]
          rows == AskedRows(r)
          listed == [i \in DOMAIN req[r].stats |->
                       Row(req[r].ev.source.groupId, req[r].stats[i].user_id,
                           req[r].targetMonth, req[r].stats[i].count)]
      IN /\ reply.total = SumRows(BagToSet(rows), rows)
         /\ reply.active = BagCardinality(rows)
         /\ Len(reply.lines) = BagCardinality(rows)
         /\ \A row \in BagToSet(rows) :
              Cardinality({i \in DOMAIN listed : listed[i] = row}) = rows[row]
         /\ \A i \in DOMAIN reply.lines :
              reply.lines[i].count = req[r].stats[i].count

\* C18 witness: a report of two rows was sent, one of them written by an
\* earlier event of the same request.
C18_Witness ==
  \E r \in Requests :
    \E k \in ReportReplies(r) :
      /\ req[r].evReplies[k].active = 2
      /\ req[r].evReplies[k].total = 2
      /\ req[r].processedCount = 1

\* ---------------------------------------------------- the parser: claims

\* The calendar year at UTC+9 of hour t: 2025 begins there at 15:00Z of
\* 2024-12-31, which is hour 15.
YearInZone(t) == IF t < 15 THEN 2024 ELSE 2025

\* The month a report command of the model names.
NamedMonth(text) ==
  IF text = TxtStats THEN 12
  ELSE IF text = TxtStatsYear THEN 1
  ELSE 3

\* C20: when the handler parses a report command, the target it gets is
\* Y-MM with MM the month named, zero-padded, and Y the year at UTC+9 of that
\* instant, which is the year getCurrentYearMonth gives then, whatever year
\* the text may carry and whatever the month key of the request is.
C20_YearOfHandlingTime ==
  [][ \A r \in Requests :
        (req[r].pc = "gate" /\ req'[r].targetMonth # Null) =>
          LET m == NamedMonth(req[r].ev.message.text) IN
            /\ req'[r].targetMonth = <<YearInZone(now), "-", m \div 10, m % 10>>
            /\ req'[r].targetMonth[1] = getCurrentYearMonth(now)[1]
    ]_vars

\* C20 witness: a request that arrived in 2024 parsed, after midnight at
\* UTC+9 and before midnight UTC, a command that carries the year 2023.
C20_Witness ==
  \E r \in Requests :
    /\ req[r].ev.message.text = TxtStatsYear
    /\ req[r].targetMonth = <<2025, "-", 0, 1>>
    /\ req[r].yearMonth = <<2024, "-", 1, 2>>
    /\ now = 15

\* The text holds, somewhere, "@" and the bot's name in any letter case,
\* then blanks or nothing, then one or two digits that read as a month of
\* 1..12, then at once the keyword.
AddressedMonthDirective(text, botName) ==
  \E p \in 1..Len(text), q \in 1..Len(text), n \in 1..2 :
    /\ p + 1 < q /\ q + n <= Len(text)
    /\ text[p] = "@"
    /\ toLowerCase(text[p + 1]) = toLowerCase(botName)
    /\ \A j \in (p + 2)..(q - 1) : text[j] = " "
    /\ \A j \in q..(q + n - 1) : IsDigit(text[j])
    /\ text[q + n] = KW
    /\ LET month == parseInt(SubSeq(text, q, q + n - 1))
       IN month >= 1 /\ month <= 12

\* The current event of r passed the gate and was classified.
Classified(r) ==
  /\ req[r].ev # NoEvent
  /\ "is_group_allowed" \in req[r].evCalls

\* C21 (as claimed): the handler gets a target month from parseStatsRequest
\* for a text exactly when the text holds the bot's mention followed, after
\* optional blanks, by a month of 1..12 in one or two digits and the keyword.
C21_CommandIffAddressedMonth ==
  \A r \in Requests :
    Classified(r) =>
      (req[r].targetMonth # Null
         <=> AddressedMonthDirective(req[r].ev.message.text, env.LINE_BOT_NAME))

\* ------------------------------------------- the entry of the handler: claims

\* The request made no call, took no event, and the tables are as they
\* started.
NothingProcessed(r) ==
  /\ req[r].calls = {}
  /\ req[r].idx = 0
  /\ req[r].processedCount = 0
  /\ req[r].incLog = EmptyBag
  /\ message_counts = InitStore
  /\ user_names = {}
  /\ group_names = {}

\* C22 (as claimed): where no channel secret is configured, a POST is
\* answered 401 and nothing of it is processed.
C22_MissingSecretIs401 ==
  \A r \in Requests :
    (req[r].pc = "done" /\ req[r].method = "POST" /\ env.LINE_CHANNEL_SECRET = "")
    => (req[r].status = 401 /\ NothingProcessed(r))

\* C23 (as claimed): a request of any method other than POST is answered
\* 405 and nothing of it is processed.
C23_NonPostIs405 ==
  \A r \in Requests :
    (req[r].pc = "done" /\ req[r].method # "POST")
    => (req[r].status = 405 /\ NothingProcessed(r))

\* C23 (amended): a request of a method other than POST is answered 204 when
\* the method is OPTIONS and 405 otherwise, whatever the configuration and
\* the signature header, and nothing of it is processed.
C23_NonPostIs405Or204 ==
  \A r \in Requests :
    (req[r].pc = "done" /\ req[r].method # "POST")
    => /\ req[r].status = IF req[r].method = "OPTIONS" THEN 204 ELSE 405
       /\ NothingProcessed(r)

\* C23 witness: a GET without signature header, sent to a deployment without
\* channel secret, was answered 405.
C23_Witness ==
  \E r \in Requests :
    /\ req[r].pc = "done" /\ req[r].method = "GET"
    /\ req[r].sig = <<>> /\ env.LINE_CHANNEL_SECRET = ""
    /\ req[r].status = 405

\* C24 (as claimed): every request that passed the signature check and
\* entered its loop is eventually answered, also when a call made for one of
\* its events is never answered.
C24_EventuallyAnswered ==
  \A r \in Requests :
    (Verified(r) /\ InFlight(r)) ~> (req[r].pc = "done")

\* ------------------------------------------------- failing calls: claims

\* The name a resolver falls back to for an id.
FallbackName(kind, id) ==
  IF kind = "user" THEN getUserProfile(id, FALSE) ELSE getGroupSummary(id, FALSE)

\* C25: a resolver call whose external request failed returns the fallback
\* name of its id, and an event that entered the count branch goes on to
\* the increment whatever the outcome of the external requests: a request
\* answered 200 has counted every qualifying event of its batch.
C25_CountedDespiteApiFailure ==
  \A r \in Requests :
    /\ \A k \in DOMAIN req[r].res :
         LET c == req[r].res[k] IN
           (c.fetched /\ c.name # Null /\ ~c.apiOk) =>
             c.name = FallbackName(c.kind, c.id)
    /\ req[r].branch = "count" =>
         \/ req[r].pc \in {"groupName", "fetchGroup", "userName", "fetchUser",
                           "increment"}
         \/ "increment_message_count" \in req[r].evCalls
    /\ (req[r].pc = "done" /\ req[r].status = 200) =>
         /\ req[r].processedCount = BagCardinality(req[r].eligible)
         /\ BagCardinality(req[r].incLog) = BagCardinality(req[r].eligible)

\* C25 witness: the summary request and the profile request made for a
\* message both failed, and the message was counted.
C25_Witness ==
  \E r \in Requests :
    /\ req[r].branch = "count" /\ req[r].pc = "loop"
    /\ req[r].processedCount = 1
    /\ Len(req[r].res) = 2
    /\ \A k \in 1..2 : req[r].res[k].fetched /\ ~req[r].res[k].apiOk
    /\ req[r].res[1].kind = "group" /\ req[r].res[2].kind = "user"
    /\ StoredCount(message_counts, <<"G1", "U1", req[r].yearMonth>>) = 1

\* The store calls of kind that returned an error to r, by event number.
FailedAt(r, kind) ==
  {req[r].failed[k][1] :
     k \in {j \in DOMAIN req[r].failed : req[r].failed[j][2] = kind}}

\* The select of the current event of r returned an error.
ReadFailedNow(r) ==
  /\ req[r].ev # NoEvent
  /\ req[r].idx \in FailedAt(r, "select")

\* After a failed select the event is left: no reply was sent for it, it
\* was not counted, and the handler is back in its loop.
FailedReadIsSilent ==
  \A r \in Requests :
    ReadFailedNow(r) =>
      /\ req[r].evReplies = <<>>
      /\ "reply" \notin req[r].evCalls
      /\ "increment_message_count" \notin req[r].evCalls
      /\ req[r].evCalls = {"is_group_allowed", "select"}
      /\ req[r].pc = "loop"
      /\ req[r].status = 0

\* C26 (as claimed): when the select of a report command fails at the store,
\* no reply is sent for the event, the event is not counted, the handler
\* goes on with the next event, and the request is answered with 200.
C26_FailedReadStill200 ==
  /\ FailedReadIsSilent
  /\ \A r \in Requests :
       (req[r].pc = "done" /\ FailedAt(r, "select") # {}) => req[r].status = 200

\* ------------------------------------------------------ redelivery: claims

\* Requests a and b are two deliveries of one payload, both accepted and
\* answered 200.
SamePayloadTwice(a, b) ==
  /\ a # b
  /\ req[a].pc = "done" /\ req[b].pc = "done"
  /\ req[a].status = 200 /\ req[b].status = 200
  /\ req[a].body = req[b].body

\* C27 (as claimed): when a payload was delivered twice, the count stored
\* for the key of every eligible event of it has risen by 2 for each such
\* event.
C27_KeyRisesByTwo ==
  \A a, b \in Requests :
    SamePayloadTwice(a, b) =>
      \A g \in Groups, u \in Users :
        LET key == <<g, u, req[a].yearMonth>> IN
          StoredCount(message_counts, key) =
            StoredCount(InitStore, key) + 2 * CopiesIn(<<g, u>>, req[a].eligible)

\* C27 (amended): each delivery counts every eligible event of the payload
\* once, under the month of the time the delivery was handled; the stored
\* counts rise by the increments of both, so a key rises by 2 for each
\* eligible event when both deliveries were handled in the same month.
C27_EachDeliveryCounts ==
  \A a, b \in Requests :
    SamePayloadTwice(a, b) =>
      /\ req[a].eligible = req[b].eligible
      /\ \A g \in Groups, u \in Users :
           CopiesIn(<<g, u, req[a].yearMonth>>, req[a].incLog) =
             CopiesIn(<<g, u>>, req[a].eligible)
      /\ BagCardinality(req[a].incLog) = BagCardinality(req[a].eligible)
      /\ \A key \in KeysInPlay :
           StoredCount(message_counts, key) =
             StoredCount(InitStore, key)
               + CopiesIn(key, req[a].incLog) + CopiesIn(key, req[b].incLog)
      /\ req[a].yearMonth = req[b].yearMonth =>
           \A g \in Groups, u \in Users :
             LET key == <<g, u, req[a].yearMonth>> IN
               StoredCount(message_counts, key) =
                 StoredCount(InitStore, key) + 2 * CopiesIn(<<g, u>>, req[a].eligible)

\* C27 witness: a payload of two messages of the same user was delivered
\* twice within one month, and the count of the user's key rose from 1 to 5.
C27_Witness ==
  \E a, b \in Requests :
    /\ SamePayloadTwice(a, b)
    /\ req[a].yearMonth = req[b].yearMonth
    /\ CopiesIn(<<"G1", "U2">>, req[a].eligible) = 2
    /\ StoredCount(InitStore, <<"G1", "U2", req[a].yearMonth>>) = 1
    /\ StoredCount(message_counts, <<"G1", "U2", req[a].yearMonth>>) = 5

\* The import addresses the row: it is of the request's group and month.
Addressed(row) ==
  row.group_id = adm.group_id /\ row.year_month = adm.year_month

\* The import data names the user: an entry handled so far carries the
\* user's display name.
NamedInImport(u) ==
  \E k \in 1..Len(adm.results) : adm.results[k].name = getUserProfile(u, TRUE)

\* The entries whose name resolved to a user id, each user with the count of
\* the last entry that names them.
ResolvedEntries ==
  { <<adm.results[k].user_id, adm.results[k].count>> :
      k \in { j \in 1..Len(adm.results) :
                /\ adm.results[j].status # "not_found"
                /\ \A l \in (j + 1)..Len(adm.results) :
                     adm.results[l].status # "not_found"
                       => adm.results[l].user_id # adm.results[j].user_id } }

\* No upsert of the import returned an error.
ImportWritesOk ==
  \A k \in 1..Len(adm.results) : adm.results[k].status # "error"

Tallied(x, idx) == \E inc \in exe[x].incs : inc[1] = idx

\* C28 (as claimed): in the Apps Script handler an event answered with the
\* report (a month command that mentions the bot) is not counted: no count
\* was incremented for that event.
C28_ReportNotTallied ==
  \A x \in Executions :
    \A k \in 1..Len(exe[x].replies) : ~Tallied(x, exe[x].replies[k].idx)

\* The execution is inside incrementGroupMonthlyCount_.
InsideIncrement(x) == exe[x].pc \in {"read", "write"}

\* The execution has ended: it answered, or an exception left doPost.
Ended(x) == exe[x].pc \in {"idle", "done", "failed"}

\* The sum of the counts of the user's rows among the data rows.
RECURSIVE CountOf(_, _)
CountOf(rows, u) ==
  IF rows = <<>> THEN 0
  ELSE (IF Head(rows).userId = u THEN Head(rows).count ELSE 0)
         + CountOf(Tail(rows), u)

\* The count stored for the user in the sheets of the group and the month:
\* the sheet named after the group's name and the one named after its id.
SheetCount(sh, g, u, monthKey) ==
  LET byName == getGroupMonthSheetName_(g, LineGroupName(g), monthKey)
      byId == getGroupMonthSheetName_(g, <<>>, monthKey)
  IN CountOf(DataRows(sh, byName), u)
       + (IF byId # byName THEN CountOf(DataRows(sh, byId), u) ELSE 0)

\* The increments of the key that the execution completed.
Increments(x, g, u, monthKey) ==
  Cardinality({inc \in exe[x].incs :
                 inc[2] = g /\ inc[3] = u /\ inc[4] = monthKey})

\* An execution inside incrementGroupMonthlyCount_ holds the script lock,
\* so no two executions are inside it together.
IncrementUnderLock ==
  \A x \in Executions : InsideIncrement(x) => lock = x

\* The lock is held only from waitLock to the finally of the increment.
LockReleased ==
  \A x \in Executions :
    lock = x => exe[x].pc \in {"read", "write", "finally"}

\* When the executions have ended, the stored count of every key of an
\* allowed group has risen by the number of increments completed for it.
NoLostIncrement ==
  (\A x \in Executions : Ended(x)) =>
    \A g \in ALLOWED_GROUP_IDS, u \in Users :
      LET monthKey == YearMonthStr(2024, 12) IN
        SheetCount(sheets, g, u, monthKey) =
          SheetCount(ScriptSheets, g, u, monthKey)
            + Increments("x1", g, u, monthKey) + Increments("x2", g, u, monthKey)

\* C29 (as claimed): in the Apps Script handler the read-then-write of a
\* count runs only under the script lock, at most one execution at a time;
\* N concurrent increments of one (group, user, month) raise the stored
\* count by exactly N; and the lock is released on every exit path of the
\* increment, also when it throws.
C29_LockedIncrement ==
  /\ IncrementUnderLock
  /\ LockReleased
  /\ NoLostIncrement

\* C31: the handler sends at most one reply for an event: the report, the
\* no-data reply and the unknown-mention reply exclude one another.
C31_AtMostOneReply ==
  \A r \in Requests : Len(req[r].evReplies) <= 1

\* C31 witness: the event at hand is a report command that mentions the
\* bot, and its one reply is the report with a line.
C31_Witness ==
  \E r \in Requests :
    /\ isBotMentioned(req[r].ev.message.text, env.LINE_BOT_NAME)
    /\ Len(req[r].evReplies) = 1
    /\ req[r].evReplies[1].kind = "report"
    /\ req[r].evReplies[1].lines # <<>>

\* The event at hand is a text message that mentions the bot and is no
\* report command, its group is allow-listed and the gate has answered, and
\* no store call of the request has returned an error.
UnhandledMention(r) ==
  /\ req[r].ev.message.type = "text"
  /\ isBotMentioned(req[r].ev.message.text, env.LINE_BOT_NAME)
  /\ ~IsReportCommand(r)
  /\ req[r].ev.source.groupId \in allowed_groups
  /\ "is_group_allowed" \in req[r].evCalls
  /\ ~req[r].storeFailed

UnanswerableCommand(r) ==
  /\ IsReportCommand(r)
  /\ req[r].ev.message.type = "text"
  /\ ~(req[r].ev.replyToken /\ env.LINE_CHANNEL_ACCESS_TOKEN)

\* C33: a report command that cannot be answered is skipped: the gate is
\* the only call made for it (no counts read, no name resolved, no
\* increment), it has no reply of any kind, it enters neither the stats nor
\* the count branch, and it sets no status; as the first event of a request
\* it leaves the table of counts as it was.
C33_UnanswerableCommandSkipped ==
  \A r \in Requests :
    UnanswerableCommand(r) =>
      /\ req[r].evCalls \subseteq {"is_group_allowed"}
      /\ req[r].evReplies = <<>>
      /\ req[r].branch = ""
      /\ req[r].pc \in {"gate", "loop"}
      /\ req[r].status = 0
      /\ req[r].idx = 1 =>
           /\ message_counts = InitStore
           /\ req[r].incLog = EmptyBag

\* C33 witness: with no access token configured, a report command that
\* carries a replyToken passed the gate of its allow-listed group and was
\* skipped.
C33_Witness ==
  \E r \in Requests :
    /\ UnanswerableCommand(r)
    /\ req[r].ev.replyToken
    /\ ~env.LINE_CHANNEL_ACCESS_TOKEN
    /\ req[r].ev.source.groupId \in allowed_groups
    /\ req[r].evCalls = {"is_group_allowed"}
    /\ ~req[r].storeFailed
    /\ req[r].pc = "loop"

\* C33 second case: the same for a command without a replyToken while an
\* access token is configured.
C33_WitnessNoToken ==
  \E r \in Requests :
    /\ UnanswerableCommand(r)
    /\ ~req[r].ev.replyToken
    /\ env.LINE_CHANNEL_ACCESS_TOKEN
    /\ req[r].ev.source.groupId \in allowed_groups
    /\ req[r].evCalls = {"is_group_allowed"}
    /\ ~req[r].storeFailed
    /\ req[r].pc = "loop"

\* C34: the yearMonth of a request is the UTC+9 month of the clock at the
\* moment the handler reads it, before the loop; it stays the same until
\* the request is answered, however the clock advances; and every increment
\* of the request is logged under it and touches only rows of that month.
C34_OneYearMonthPerRequest ==
  [][ \A r \in Requests :
        /\ (req[r].pc = "idle" /\ req'[r].pc = "loop")
             => req'[r].yearMonth = getCurrentYearMonth(now)
        /\ (InFlight(r) /\ req'[r].pc # "idle")
             => req'[r].yearMonth = req[r].yearMonth
        /\ req'[r].incLog # req[r].incLog
             => /\ \E g \in Groups, u \in Users :
                     req'[r].incLog =
                       req[r].incLog (+) SetToBag({<<g, u, req[r].yearMonth>>})
                /\ \A row \in (BagToSet(message_counts') \ BagToSet(message_counts))
                              \cup (BagToSet(message_counts) \ BagToSet(message_counts')) :
                     row.year_month = req[r].yearMonth
    ]_vars

\* C34 witness: a request that read its yearMonth in December has counted
\* two events under it, the second one after the clock of the handler had
\* passed into January.
C34_Witness ==
  \E r \in Requests :
    /\ req[r].yearMonth = YearMonthStr(2024, 12)
    /\ getCurrentYearMonth(now) = YearMonthStr(2025, 1)
    /\ req[r].idx = 2
    /\ req[r].pc = "loop"
    /\ "increment_message_count" \in req[r].evCalls
    /\ CopiesIn(<<"G1", "U1", YearMonthStr(2024, 12)>>, req[r].incLog) = 2
    /\ StoredCount(message_counts, <<"G1", "U1", YearMonthStr(2025, 1)>>) =
         StoredCount(InitStore, <<"G1", "U1", YearMonthStr(2025, 1)>>)

\* The count the rows selected for the current event of r give for user u.
RECURSIVE ListedCount(_, _)
ListedCount(s, u) ==
  IF s = <<>> THEN 0
  ELSE (IF s[1].user_id = u THEN s[1].count ELSE 0) + ListedCount(Tail(s), u)

\* A reply sent for the current event of r, asking for the month the request
\* counts under, shows what the table held at the start plus the increments
\* the request has made before: per user of the group in a report, and
\* nothing at all in a no-data reply.
ReportSeesEarlierEvents(r) ==
  \A k \in DOMAIN req[r].evReplies :
    LET reply == req[r].evReplies[k]
        g == req[r].ev.source.groupId
        Expected(u) ==
          StoredCount(InitStore, <<g, u, req[r].yearMonth>>)
            + CopiesIn(<<g, u, req[r].yearMonth>>, req[r].incLog)
    IN (reply.kind \in {"report", "nodata"} /\ req[r].targetMonth = req[r].yearMonth)
       => IF reply.kind = "nodata"
          THEN \A u \in Users : Expected(u) = 0
          ELSE /\ \A u \in Users : ListedCount(req[r].stats, u) = Expected(u)
               /\ reply.total = Expected("U1") + Expected("U2")
               /\ \A i \in DOMAIN reply.lines :
                    reply.lines[i].count = req[r].stats[i].count

\* C35: the index of the event at hand only moves from the head of the loop
\* and by one, so an event is taken when the one before it is finished;
\* and a report for the request's own month shows the increments of the
\* events before it.
C35_InOrderReportSeesEarlier ==
  [][ \A r \in Requests :
        /\ req'[r].idx # req[r].idx
             => /\ req[r].pc = "loop"
                /\ req'[r].idx = req[r].idx + 1
        /\ (req[r].pc \notin {"idle", "loop"} /\ req'[r].pc # "done")
             => req'[r].ev = req[r].ev
        /\ ReportSeesEarlierEvents(r)'
    ]_vars

\* C35 witness: the second event of a request is a report command for the
\* month the request counts under, and its report lists the message the
\* first event brought for U1 next to the row U2 had at the start.
C35_Witness ==
  \E r \in Requests :
    /\ req[r].idx = 2
    /\ req[r].targetMonth = req[r].yearMonth
    /\ Len(req[r].evReplies) = 1
    /\ req[r].evReplies[1].kind = "report"
    /\ CopiesIn(<<"G1", "U1", req[r].yearMonth>>, req[r].incLog) = 1
    /\ ListedCount(req[r].stats, "U1") = 1
    /\ ListedCount(req[r].stats, "U2") = 1
    /\ req[r].evReplies[1].total = 2

\* The allow-list lookup of the current event of r returned an error.
GateFailedNow(r) ==
  /\ req[r].ev # NoEvent
  /\ req[r].idx \in FailedAt(r, "is_group_allowed")

\* C36: an event whose allow-list lookup returned an error is treated as
\* not allowed, whatever its group: the lookup is the only call made for it
\* (no counts read, no name looked up or cached, no increment), it has no
\* reply, and the handler is back at the head of its loop with no status
\* set; as the first event of the only request so far it leaves the counts
\* and both name caches as they were.
C36_GateFailsClosed ==
  \A r \in Requests :
    GateFailedNow(r) =>
      /\ req[r].evCalls = {"is_group_allowed"}
      /\ req[r].evReplies = <<>>
      /\ req[r].branch = ""
      /\ req[r].pc = "loop"
      /\ req[r].status = 0
      /\ (req[r].idx = 1 /\ \A o \in Requests \ {r} : req[o].pc = "idle")
           => /\ message_counts = InitStore
              /\ user_names = {}
              /\ group_names = {}

\* C36 witness: the lookup failed for the first event, a message of the
\* allow-listed group, and the handler went on to count the second event.
C36_Witness ==
  \E r \in Requests :
    /\ 1 \in FailedAt(r, "is_group_allowed")
    /\ 2 \notin FailedAt(r, "is_group_allowed")
    /\ req[r].idx = 2
    /\ req[r].ev.source.groupId \in allowed_groups
    /\ "increment_message_count" \in req[r].evCalls
    /\ BagCardinality(req[r].incLog) = 1
    /\ req[r].processedCount = 1

\* The sheet of the group and the month under the name LINE gives for the
\* group.
HomeSheet(g, monthKey) ==
  getGroupMonthSheetName_(g, LineGroupName(g), monthKey)

\* The rows of the user in a sheet.
RowsOfUser(sh, name, u) ==
  {i \in DOMAIN DataRows(sh, name) : DataRows(sh, name)[i].userId = u}

\* C37 (as claimed): in the Apps Script handler the increments of a (group,
\* user, month) accumulate in one row of one sheet of the group and the
\* month, whatever the outcome of the group-name resolution at each event:
\* no second sheet appears for the group and the month, no sheet holds two
\* rows of a user, an execution that increments or reports has resolved
\* the name of that sheet, and when the executions have ended the row's
\* count has risen by the number of increments completed.
C37_OneSheetOneRow ==
  \A g \in ALLOWED_GROUP_IDS :
    LET monthKey == YearMonthStr(2024, 12)
        home == HomeSheet(g, monthKey)
    IN /\ DOMAIN sheets \subseteq {home}
       /\ \A u \in Users : Cardinality(RowsOfUser(sheets, home, u)) <= 1
       /\ \A x \in Executions :
            (exe[x].pc \in {"read", "write", "report"}
               /\ exe[x].ev.source.groupId = g)
            => getGroupMonthSheetName_(g, exe[x].groupName, monthKey) = home
       /\ (\A x \in Executions : Ended(x)) =>
            \A u \in Users :
              CountOf(DataRows(sheets, home), u) =
                CountOf(DataRows(ScriptSheets, home), u)
                  + Increments("x1", g, u, monthKey)
                  + Increments("x2", g, u, monthKey)

\* What becomes of the claim of C37 on the code: a user has a row in the
\* sheet named after the group's name and another one in the sheet named
\* after the group's id.
C37_SplitAcrossSheets ==
  \E g \in ALLOWED_GROUP_IDS, u \in Users :
    LET monthKey == YearMonthStr(2024, 12)
        byId == getGroupMonthSheetName_(g, <<>>, monthKey)
    IN /\ byId # HomeSheet(g, monthKey)
       /\ RowsOfUser(sheets, HomeSheet(g, monthKey), u) # {}
       /\ RowsOfUser(sheets, byId, u) # {}
       /\ \A x \in Executions : Ended(x)

\* C19 (as claimed): the text of every report reply the handler sends has at
\* most 5000 characters, however many rows the (group, month) has.
C19_ReplyWithinLimit ==
  \A r \in Requests :
    \A k \in ReportReplies(r) : TextLength(req[r].evReplies[k]) <= 5000

====
